---- MODULE Spec2Model ----
(***************************************************************************)
(* Multi-tenant runner control plane: the tenant registry and its cache    *)
(* (lambdas/libs/tenant-registry), the fail-closed calls of the          *)
(* control plane (scale-runners/tenant.ts), the graceful-degradation       *)
(* lookup and dispatch of the webhook (webhook/src/runners), and the       *)
(* installation lifecycle handler (tenant-manager/src/handlers).           *)
(*                                                                         *)
(* Every async function is a process whose steps are the synchronous       *)
(* segments between its awaits; a store round trip is two steps, the       *)
(* request landing at the store and the continuation resuming.             *)
(***************************************************************************)
EXTENDS Integers, Sequences, FiniteSets, Bags, TLC

\* ------------------------------------------------------------------ bounds
NumTenants == 3
\* Calls one process may have suspended at once when it issues them concurrently.
MaxInFlight == 2
\* Installations the calls of the Lambda handlers are tried on.
NumProbed == 2
\* EC2 instances that exist.
NumInstances == 3
\* Installations whose events the webhook receives.
NumDispatched == 1

\* Alternatives (label sets) a tier may declare when canRunJob is tried alone.
MaxAlternatives == 2
\* Messages the tier queues may hold before no more events are dispatched.
MaxQueued == 1

\* --------------------------------------------------------------- constants
CACHE_TTL_MS == 60000
\* TENANT_CACHE_MAX_SIZE=2 in the registry's environment.
MAX_CACHE_SIZE == 2
\* The webhook's own cache has a fixed capacity.
WEBHOOK_MAX_CACHE_SIZE == 1000

Tenants == 1..NumTenants
Probed == 1..NumProbed

\* The installation given to createTenant, updateTenant and getTenant called
\* directly: each of their commands touches the one item under its key.
Stored == {1}

\* Instants the clock may stand at; they straddle one TTL period.
Times == {0, CACHE_TTL_MS - 1, CACHE_TTL_MS}

TIER_LIMITS == [small |-> 2, medium |-> 5, large |-> 10]

\* The tier queues, named by their tier.
Tiers == {"small", "medium", "large"}

NoConfig == [matcherConfig |-> <<>>, repositoryAllowList |-> <<>>]

NoQueues == [q \in Tiers |-> 0]

\* ------------------------------------------------------------- JS values
\* Timestamps are the instants their ISO strings denote.
NullTenant == [installation_id |-> 0, status |-> "null", tier |-> "null", max_runners |-> 0,
               created_at |-> 0, updated_at |-> 0]

Digits == <<"0", "1", "2", "3", "4", "5", "6", "7", "8", "9">>

DigitValue(c) == CHOOSE d \in 0..9 : Digits[d + 1] = c

IsDigit(c) == \E d \in 0..9 : Digits[d + 1] = c

\* String(n) for a non-negative integer: its decimal digits.
RECURSIVE NumberToString(_)
NumberToString(n) == IF n < 10 THEN <<Digits[n + 1]>>
               ELSE Append(NumberToString(n \div 10), Digits[(n % 10) + 1])

NaN == -1

\* parseInt(s, 10): the value of the longest prefix of decimal digits, NaN
\* when that prefix is empty; what follows the prefix is ignored.
RECURSIVE ParseDigits(_, _, _)
ParseDigits(s, i, acc) ==
    IF i > Len(s) \/ ~IsDigit(s[i]) THEN acc
    ELSE ParseDigits(s, i + 1, acc * 10 + DigitValue(s[i]))

parseInt(s) == IF Len(s) = 0 \/ ~IsDigit(s[1]) THEN NaN ELSE ParseDigits(s, 1, 0)

\* tenantId strings offered to getTenantConfig.
TenantIdInputs == {<<>>, <<"x">>, <<"1", "x">>} \cup {NumberToString(n) : n \in Probed}

\* input.tier || 'small'
TierOrDefault(tier) == IF tier = "undefined" THEN "small" ELSE tier

NewTenantSmallLimit(installation_id, tier, at) ==
    [installation_id |-> installation_id, status |-> "active", tier |-> tier,
     max_runners |-> TIER_LIMITS["small"], created_at |-> at, updated_at |-> at]

\* createTenant's record for an installation, created at instant `at`.
NewTenant(installation_id, tier, at) ==
    [installation_id |-> installation_id, status |-> "active", tier |-> tier,
     max_runners |-> TIER_LIMITS[tier], created_at |-> at, updated_at |-> at]

\* ------------------------------------------------------------------ Map
\* A JS Map is a sequence of entries in insertion order, one per key.
MapHas(m, k) == \E i \in 1..Len(m) : m[i].key = k

MapIndex(m, k) == CHOOSE i \in 1..Len(m) : m[i].key = k

MapGet(m, k) == m[MapIndex(m, k)]

MapKeys(m) == {m[i].key : i \in 1..Len(m)}

MapDelete(m, k) == SelectSeq(m, LAMBDA e : e.key # k)

\* Map.prototype.set: an existing key keeps its position, a new key is appended.
MapSet(m, e) ==
    IF MapHas(m, e.key) THEN [m EXCEPT ![MapIndex(m, e.key)] = e] ELSE Append(m, e)

NewestKey(m) == m[Len(m)].key

\* tenantCache.keys().next().value
OldestKey(m) == m[1].key

VARIABLES
    store,        \* the tenant table: installation_id -> TenantConfig (partial)
    tableName,    \* process.env.TENANT_TABLE_NAME is set
    now,          \* Date.now()
    tenantCache,  \* tenant-registry's module-level Map
    webhookCache, \* the webhook's module-level Map (runners/tenant.ts)
    calls,        \* the bag of calls suspended at an await
    returned,     \* the call that returned in the step just taken, if any
    instances,    \* the live EC2 instances, each tagged with its tenant
    config,       \* the webhook's matcherConfig and repositoryAllowList
    queues,       \* messages on each tier queue
    deliveries    \* what a tier queue knows of each message the scale-up Lambda is given

vars == <<store, tableName, now, tenantCache, webhookCache, calls, returned,
          instances, config, queues, deliveries>>

\* ------------------------------------------------------------ registry
NoResp == [kind |-> "none", item |-> NullTenant]

\* What a call gives its caller: a value, or an error with what it carries.
NoRet == [kind |-> "pending", tenant |-> NullTenant, tenantId |-> <<>>,
          statusCode |-> 0, detail |-> ""]

NoEvent == [action |-> "", labels |-> <<>>, repository |-> ""]

\* The call a caller awaited just before it began another one.
NoAfter == [op |-> "none", installationId |-> 0, tier |-> "undefined", stored |-> FALSE]

\* A call: its arguments, its locals, the answers it awaited and what its
\* caller gets. `reads` counts its GetCommands, `evicted` holds the entries of
\* other keys its return removed from the cache, `invalidated` tells whether
\* its removal of its own key found an entry and `sent` holds the messages it
\* enqueued. `tier` and `updates` are the inputs of createTenant and
\* updateTenant, `at` is the clock they sampled, `message` is the routing
\* message an admission was given.
NoCall == [op |-> "none", pc |-> "idle", installationId |-> 0, identifier |-> <<>>,
           event |-> NoEvent, resp |-> NoResp, ret |-> NoRet, reads |-> 0,
           evicted |-> {}, invalidated |-> FALSE, listed |-> {}, ec2 |-> "none",
           outcome |-> "", tenant |-> NullTenant, queueIds |-> <<>>, sent |-> <<>>,
           tier |-> "undefined", updates |-> <<>>, at |-> 0, after |-> NoAfter,
           message |-> 0]

TenantLookupError(identifier) ==
    [NoRet EXCEPT !.kind = "TenantLookupError", !.tenantId = identifier]

StoreError == [NoRet EXCEPT !.kind = "Error"]

Returned(t) == [NoRet EXCEPT !.kind = "value", !.tenant = t]

ReturnedNull == [NoRet EXCEPT !.kind = "null"]

InFlight(bag) == BagCardinality(bag)

Suspend(bag, c) == bag (+) SetToBag({c})

Replace(bag, c, d) == (bag (-) SetToBag({c})) (+) SetToBag({d})

Remove(bag, c) == bag (-) SetToBag({c})

\* A cache entry {tenant, expiry} under its key. `refreshed` is history the
\* program does not keep: the entry replaced an expired entry of the same key.
CacheEntry(m, installationId, tenant, t) ==
    [key |-> installationId, tenant |-> tenant, expiry |-> t + CACHE_TTL_MS,
     refreshed |-> /\ MapHas(m, installationId)
                   /\ \/ MapGet(m, installationId).refreshed
                      \/ MapGet(m, installationId).expiry <= t]

PopulateEvictsWhenFull(m, installationId, tenant, t) ==
    LET evicted == IF Len(m) >= MAX_CACHE_SIZE THEN MapDelete(m, OldestKey(m)) ELSE m
    IN  MapSet(evicted, CacheEntry(m, installationId, tenant, t))

PopulateNoEvict(m, installationId, tenant, t) ==
    MapSet(m, CacheEntry(m, installationId, tenant, t))

\* The cache once getTenantCached has the store's item for installationId.
Populate(m, installationId, tenant, t) ==
    LET evicted == IF Len(m) >= MAX_CACHE_SIZE /\ ~MapHas(m, installationId)
                   THEN MapDelete(m, OldestKey(m)) ELSE m
    IN  MapSet(evicted, CacheEntry(m, installationId, tenant, t))

CacheHitInclusive(m, installationId, t) ==
    MapHas(m, installationId) /\ MapGet(m, installationId).expiry >= t

CacheHit(m, installationId, t) ==
    MapHas(m, installationId) /\ MapGet(m, installationId).expiry > t

\* getTenantCached up to its await: a hit returns, a miss calls getTenant,
\* whose getTableName throws when TENANT_TABLE_NAME is not set.
CachedLookupBegin(op, installationId, identifier) ==
    LET l == [NoCall EXCEPT !.op = op, !.installationId = installationId,
                            !.identifier = identifier]
    IN  IF CacheHit(tenantCache, installationId, now)
        THEN [l EXCEPT !.pc = "done",
                       !.ret = Returned(MapGet(tenantCache, installationId).tenant)]
        ELSE IF ~tableName
             THEN [l EXCEPT !.pc = "done", !.ret = StoreError]
             ELSE [l EXCEPT !.pc = "send"]

\* The Lambda function an operation runs in; the registry's own operations
\* run in whichever process calls them.
ProcessOf(op) ==
    CASE op \in {"getTenantConfig", "getTenantConfigByInstallationId"} -> "control-plane"
      [] op \in {"webhook.getTenantCached", "dispatch"} -> "webhook"
      [] op = "handleInstallation" -> "tenant-manager"
      [] OTHER -> "caller"

\* The callers of the registry's getTenantCached.
CachedLookupOps == {"getTenantCached", "getTenantConfig", "getTenantConfigByInstallationId"}

\* A Lambda process handles one invocation at a time; a caller of the registry
\* may have up to MaxInFlight calls suspended.
MayBegin(op) ==
    IF ProcessOf(op) = "caller"
    THEN InFlight(calls) < MaxInFlight
    ELSE \A l \in BagToSet(calls) : ProcessOf(l.op) # ProcessOf(op)

\* A call that ran up to its first await or to its return.
Begin(l) ==
    /\ MayBegin(l.op)
    /\ IF l.pc = "done"
       THEN calls' = calls /\ returned' = l
       ELSE calls' = Suspend(calls, l) /\ returned' = NoCall
    /\ UNCHANGED <<deliveries, instances, config, queues, store, tableName, now, tenantCache, webhookCache>>

GetTenantCachedStart(installationId) ==
    Begin(CachedLookupBegin("getTenantCached", installationId, <<>>))

\* lookupTenant up to its await.
LookupTenantBegin(op, installationId, identifier) ==
    IF ~tableName
    THEN [NoCall EXCEPT !.op = op, !.installationId = installationId,
                        !.identifier = identifier, !.pc = "done", !.ret = ReturnedNull]
    ELSE LET l == CachedLookupBegin(op, installationId, identifier)
         IN  IF l.pc = "done" /\ l.ret.kind = "Error"
             THEN [l EXCEPT !.ret = TenantLookupError(identifier)]
             ELSE l

GetTenantConfigBegin(tenantId) ==
    LET l0 == [NoCall EXCEPT !.op = "getTenantConfig", !.identifier = tenantId,
                             !.pc = "done"]
        installationId == parseInt(tenantId)
    IN  IF Len(tenantId) = 0
        THEN [l0 EXCEPT !.ret = TenantLookupError(<<>>)]
        ELSE IF installationId = NaN
             THEN [l0 EXCEPT !.ret = TenantLookupError(tenantId)]
             ELSE LookupTenantBegin("getTenantConfig", installationId, tenantId)

GetTenantConfigStart(tenantId) == Begin(GetTenantConfigBegin(tenantId))

GetTenantConfigByInstallationIdBegin(installationId) ==
    IF installationId = 0
    THEN [NoCall EXCEPT !.op = "getTenantConfigByInstallationId",
                        !.identifier = NumberToString(installationId),
                        !.pc = "done",
                        !.ret = TenantLookupError(NumberToString(installationId))]
    ELSE LookupTenantBegin("getTenantConfigByInstallationId", installationId,
                           NumberToString(installationId))

GetTenantConfigByInstallationIdStart(installationId) ==
    Begin(GetTenantConfigByInstallationIdBegin(installationId))

\* The GetCommand reaches the table: it rejects, or answers with the item or none.
GetItem(installationId, rejects) ==
    IF rejects THEN [kind |-> "error", item |-> NullTenant]
    ELSE IF installationId \in DOMAIN store
         THEN [kind |-> "item", item |-> store[installationId]]
         ELSE [kind |-> "noitem", item |-> NullTenant]

GetTenantSend(l, rejects) ==
    /\ l.pc = "send"
    /\ calls' = Replace(calls, l, [l EXCEPT !.pc = "resume",
                                                !.resp = GetItem(l.installationId, rejects),
                                                !.reads = l.reads + 1])
    /\ returned' = NoCall
    /\ UNCHANGED <<deliveries, instances, config, queues, store, tableName, now, tenantCache, webhookCache>>

LookupOutcomeFailOpen(l) ==
    IF l.op = "getTenantCached"
    THEN CASE l.resp.kind = "error"  -> StoreError
           [] l.resp.kind = "noitem" -> ReturnedNull
           [] OTHER                  -> Returned(l.resp.item)
    ELSE CASE l.resp.kind = "item"   -> Returned(l.resp.item)
           [] l.resp.kind = "noitem" -> TenantLookupError(l.identifier)
           [] OTHER                  -> ReturnedNull

\* What the caller sees: getTenantCached rethrows getTenant's error and returns
\* the item or null; lookupTenant turns null and every error into TenantLookupError.
LookupOutcome(l) ==
    IF l.op = "getTenantCached"
    THEN CASE l.resp.kind = "error"  -> StoreError
           [] l.resp.kind = "noitem" -> ReturnedNull
           [] OTHER                  -> Returned(l.resp.item)
    ELSE CASE l.resp.kind = "item"   -> Returned(l.resp.item)
           [] OTHER                  -> TenantLookupError(l.identifier)

CacheAfterLookupKeepsStale(m, l, t) ==
    CASE l.resp.kind = "item" -> Populate(m, l.installationId, l.resp.item, t)
      [] OTHER                -> m

CacheAfterLookupDropsOnError(m, l, t) ==
    CASE l.resp.kind = "item" -> Populate(m, l.installationId, l.resp.item, t)
      [] OTHER                -> MapDelete(m, l.installationId)

\* getTenantCached after its await.
CacheAfterLookup(m, l, t) ==
    CASE l.resp.kind = "error"  -> m
      [] l.resp.kind = "noitem" -> MapDelete(m, l.installationId)
      [] OTHER                  -> Populate(m, l.installationId, l.resp.item, t)

GetTenantCachedResume(l) ==
    /\ l.pc = "resume"
    /\ l.op \in CachedLookupOps
    /\ tenantCache' = CacheAfterLookup(tenantCache, l, now)
    /\ calls' = Remove(calls, l)
    /\ returned' = [l EXCEPT !.pc = "done", !.ret = LookupOutcome(l),
                              !.invalidated = /\ l.resp.kind = "noitem"
                                              /\ MapHas(tenantCache, l.installationId),
                              !.evicted = {tenantCache[i] : i \in
                                  {j \in 1..Len(tenantCache) :
                                      /\ tenantCache[j].key # l.installationId
                                      /\ ~MapHas(tenantCache', tenantCache[j].key)}}]
    /\ UNCHANGED <<deliveries, instances, config, queues, store, tableName, now, webhookCache>>

\* ------------------------------------------------------- webhook lookup
Outcome(kind, tenant) == [NoRet EXCEPT !.kind = kind, !.tenant = tenant]

WebhookPopulate(m, installationId, tenant, t) ==
    LET evicted == IF Len(m) >= WEBHOOK_MAX_CACHE_SIZE /\ ~MapHas(m, installationId)
                   THEN MapDelete(m, OldestKey(m)) ELSE m
    IN  MapSet(evicted, CacheEntry(m, installationId, tenant, t))

\* The webhook's getTenantCached up to its await.
WebhookLookupBegin(installationId) ==
    LET l == [NoCall EXCEPT !.op = "webhook.getTenantCached",
                            !.installationId = installationId]
    IN  IF CacheHit(webhookCache, installationId, now)
        THEN [l EXCEPT !.pc = "done",
                       !.ret = Outcome("found", MapGet(webhookCache, installationId).tenant)]
        ELSE IF ~tableName
             THEN [l EXCEPT !.pc = "done", !.ret = Outcome("disabled", NullTenant)]
             ELSE [l EXCEPT !.pc = "send"]

WebhookGetTenantCachedStart(installationId) == Begin(WebhookLookupBegin(installationId))

WebhookOutcomeConfused(l) ==
    CASE l.resp.kind = "item" -> Outcome("found", l.resp.item)
      [] OTHER                -> Outcome("not_found", NullTenant)

\* The webhook's getTenantCached after its await: try body and catch.
WebhookOutcome(l) ==
    CASE l.resp.kind = "error"  -> Outcome("lookup_error", NullTenant)
      [] l.resp.kind = "noitem" -> Outcome("not_found", NullTenant)
      [] OTHER                  -> Outcome("found", l.resp.item)

WebhookCacheAfterLookup(m, l, t) ==
    CASE l.resp.kind = "error"  -> m
      [] l.resp.kind = "noitem" -> MapDelete(m, l.installationId)
      [] OTHER                  -> WebhookPopulate(m, l.installationId, l.resp.item, t)

WebhookGetTenantCachedResume(l) ==
    /\ l.pc = "resume"
    /\ l.op = "webhook.getTenantCached"
    /\ webhookCache' = WebhookCacheAfterLookup(webhookCache, l, now)
    /\ calls' = Remove(calls, l)
    /\ returned' = [l EXCEPT !.pc = "done", !.ret = WebhookOutcome(l),
                              !.invalidated = /\ l.resp.kind = "noitem"
                                              /\ MapHas(webhookCache, l.installationId)]
    /\ UNCHANGED <<deliveries, instances, config, queues, store, tableName, now, tenantCache>>

CacheKept(m, installationId) == m

\* tenantCache.delete(installationId)
CacheWithout(m, installationId) == MapDelete(m, installationId)

invalidateTenantCache(installationId) ==
    /\ tenantCache' = CacheWithout(tenantCache, installationId)
    /\ returned' = NoCall
    /\ UNCHANGED <<deliveries, instances, config, queues, store, tableName, now, webhookCache, calls>>

clearTenantCache ==
    /\ tenantCache' = <<>>
    /\ returned' = NoCall
    /\ UNCHANGED <<deliveries, instances, config, queues, store, tableName, now, webhookCache, calls>>

\* A caller that has invalidated or cleared the cache and has not yet made its
\* next getTenantCached for installationId.
LookupPending(installationId) ==
    \E c \in BagToSet(calls) :
        c.pc \in {"invalidated", "cleared"} /\ c.installationId = installationId

\* The updates of the updateTenant(installationId, u) the caller has just
\* awaited, when it wrote the record; none otherwise.
UpdatedBefore(installationId) ==
    IF /\ returned.op = "updateTenant" /\ returned.installationId = installationId
       /\ returned.ret.kind = "value"
    THEN returned.updates
    ELSE NoCall.updates

\* The caller's next lookup of installationId, still to begin; `updates` is
\* what the caller wrote just before it invalidated or cleared.
Pending(pc, installationId) ==
    [NoCall EXCEPT !.op = "getTenantCached", !.pc = pc, !.installationId = installationId,
                   !.updates = UpdatedBefore(installationId)]

\* invalidateTenantCache(id) by a caller whose next lookup of id comes later.
InvalidateThenLookup(installationId) ==
    /\ MayBegin("getTenantCached")
    /\ ~LookupPending(installationId)
    /\ tenantCache' = CacheWithout(tenantCache, installationId)
    /\ calls' = Suspend(calls, Pending("invalidated", installationId))
    /\ returned' = NoCall
    /\ UNCHANGED <<deliveries, instances, config, queues, store, tableName, now, webhookCache>>

\* clearTenantCache() by a caller whose next lookup of installationId comes later.
ClearThenLookup(installationId) ==
    /\ MayBegin("getTenantCached")
    /\ ~LookupPending(installationId)
    /\ tenantCache' = <<>>
    /\ calls' = Suspend(calls, Pending("cleared", installationId))
    /\ returned' = NoCall
    /\ UNCHANGED <<deliveries, instances, config, queues, store, tableName, now, webhookCache>>

\* The first getTenantCached(id) of the process since the invalidation or the
\* clearing, up to its await.
LookupAfter(c) ==
    /\ c.pc \in {"invalidated", "cleared"}
    /\ LET l == [CachedLookupBegin("getTenantCached", c.installationId, <<>>)
                    EXCEPT !.after = [NoAfter EXCEPT
                                         !.op = IF c.pc = "invalidated"
                                                THEN "invalidateTenantCache"
                                                ELSE "clearTenantCache",
                                         !.installationId = c.installationId],
                            !.updates = c.updates]
       IN  IF l.pc = "done"
           THEN calls' = Remove(calls, c) /\ returned' = l
           ELSE calls' = Replace(calls, c, l) /\ returned' = NoCall
    /\ UNCHANGED <<deliveries, instances, config, queues, store, tableName, now, tenantCache, webhookCache>>

\* ------------------------------------------------------- tenant manager
\* The action of an installation event; the last one stands for every other.
InstallationActions == {"created", "deleted", "suspend", "unsuspend", "new_permissions_accepted"}

ReturnedVoid == [NoRet EXCEPT !.kind = "void"]

\* The updates each handler passes to updateTenant.
UpdatesOf(action) ==
    CASE action = "deleted"   -> [status |-> "deleted"]
      [] action = "suspend"   -> [status |-> "suspended"]
      [] action = "unsuspend" -> [status |-> "active"]

UpdateExpressionNoDerive(item, updates, at) ==
    LET stamped == [item EXCEPT !.updated_at = at]
        a == IF "status" \in DOMAIN updates
             THEN [stamped EXCEPT !.status = updates.status] ELSE stamped
        b == IF "tier" \in DOMAIN updates
             THEN [a EXCEPT !.tier = updates.tier] ELSE a
    IN  IF "max_runners" \in DOMAIN updates
        THEN [b EXCEPT !.max_runners = updates.max_runners]
        ELSE b

UpdateExpressionWholeItem(item, updates, at) ==
    LET stamped == [item EXCEPT !.updated_at = at]
        a == [stamped EXCEPT !.status = IF "status" \in DOMAIN updates
                                        THEN updates.status ELSE "active"]
        b == IF "tier" \in DOMAIN updates
             THEN [a EXCEPT !.tier = updates.tier] ELSE a
    IN  IF "max_runners" \in DOMAIN updates
        THEN [b EXCEPT !.max_runners = updates.max_runners]
        ELSE IF "tier" \in DOMAIN updates
             THEN [b EXCEPT !.max_runners = TIER_LIMITS[updates.tier]]
             ELSE b

\* updateTenant's UpdateExpression applied to the stored item.
UpdateExpression(item, updates, at) ==
    LET stamped == [item EXCEPT !.updated_at = at]
        a == IF "status" \in DOMAIN updates
             THEN [stamped EXCEPT !.status = updates.status] ELSE stamped
        b == IF "tier" \in DOMAIN updates
             THEN [a EXCEPT !.tier = updates.tier] ELSE a
    IN  IF "max_runners" \in DOMAIN updates
        THEN [b EXCEPT !.max_runners = updates.max_runners]
        ELSE IF "tier" \in DOMAIN updates
             THEN [b EXCEPT !.max_runners = TIER_LIMITS[updates.tier]]
             ELSE b

SwitchCaseFallsToSuspend(action) ==
    IF action \in {"created", "deleted", "suspend", "unsuspend"} THEN action ELSE "suspend"

\* The case handleInstallation's switch takes for an action.
SwitchCase(action) ==
    IF action \in {"created", "deleted", "suspend", "unsuspend"} THEN action ELSE "default"

\* handleInstallation up to its first await: the switch, then createTenant or
\* updateTenant up to their command, whose getTableName throws without a table.
HandleInstallationBegin(action, installationId) ==
    LET h == [NoCall EXCEPT !.op = "handleInstallation", !.event.action = action,
                            !.installationId = installationId]
        case == SwitchCase(action)
    IN  IF case = "default"
        THEN [h EXCEPT !.pc = "done", !.ret = ReturnedVoid]
        ELSE IF ~tableName
             THEN [h EXCEPT !.pc = "done", !.ret = StoreError]
             ELSE IF case = "created"
                  THEN [h EXCEPT !.pc = "put", !.at = now, !.tier = "small"]
                  ELSE [h EXCEPT !.pc = "update", !.at = now,
                                 !.updates = UpdatesOf(case)]

HandleInstallationStart(action, installationId) ==
    Begin(HandleInstallationBegin(action, installationId))

\* The UpdateCommand reaches the table: it rejects, fails its condition
\* attribute_exists(installation_id), or writes and answers with ALL_NEW.
UpdateTenantSend(h, rejects) ==
    /\ h.pc = "update"
    /\ LET id == h.installationId
           written == ~rejects /\ id \in DOMAIN store
       IN  /\ store' = IF written
                       THEN [store EXCEPT ![id] = UpdateExpression(@, h.updates, h.at)]
                       ELSE store
           /\ calls' = Replace(calls, h,
                  [h EXCEPT !.pc = "updated",
                            !.resp = IF rejects THEN [kind |-> "error", item |-> NullTenant]
                                     ELSE IF written
                                          THEN [kind |-> "item", item |-> store'[id]]
                                          ELSE [kind |-> "ConditionalCheckFailedException",
                                                item |-> NullTenant]])
    /\ returned' = NoCall
    /\ UNCHANGED <<deliveries, instances, config, queues, tableName, now, tenantCache, webhookCache>>

HandlerAfterUpdateSwallowsError(h) ==
    /\ h.pc = "updated"
    /\ h.op = "handleInstallation"
    /\ tenantCache' = MapDelete(tenantCache, h.installationId)
    /\ LET h2 == [h EXCEPT !.invalidated = MapHas(tenantCache, h.installationId)]
       IN  IF h.event.action = "deleted"
           THEN /\ calls' = Replace(calls, h, [h2 EXCEPT !.pc = "describe"])
                /\ returned' = NoCall
           ELSE /\ calls' = Remove(calls, h)
                /\ returned' = [h2 EXCEPT !.pc = "done", !.ret = ReturnedVoid]
    /\ UNCHANGED <<deliveries, instances, config, queues, store, tableName, now, webhookCache>>

TerminatesRunnersAlways(action) == TRUE

\* The handlers that go on to terminateRunnersForTenant after their update.
TerminatesRunners(action) == action = "deleted"

\* After updateTenant: its error is rethrown; otherwise (the item or null) the
\* handler invalidates the cache entry, and the 'deleted' handler goes on to
\* terminateRunnersForTenant's DescribeInstancesCommand.
HandlerAfterUpdate(h) ==
    /\ h.pc = "updated"
    /\ h.op = "handleInstallation"
    /\ IF h.resp.kind = "error"
       THEN /\ tenantCache' = tenantCache
            /\ calls' = Remove(calls, h)
            /\ returned' = [h EXCEPT !.pc = "done", !.ret = StoreError]
       ELSE /\ tenantCache' = CacheWithout(tenantCache, h.installationId)
            /\ LET h2 == [h EXCEPT !.invalidated = MapHas(tenantCache, h.installationId)]
               IN  IF TerminatesRunners(h.event.action)
                   THEN /\ calls' = Replace(calls, h, [h2 EXCEPT !.pc = "describe"])
                        /\ returned' = NoCall
                   ELSE /\ calls' = Remove(calls, h)
                        /\ returned' = [h2 EXCEPT !.pc = "done", !.ret = ReturnedVoid]
    /\ UNCHANGED <<deliveries, instances, config, queues, store, tableName, now, webhookCache>>

\* The instance-state-name filter of the DescribeInstancesCommand.
ListedStates == {"pending", "running", "stopping", "stopped"}

TaggedInstancesOfAnyTenant(installationId) ==
    {i \in instances : i.state \in ListedStates}

\* The instances the DescribeInstancesCommand answers with.
TaggedInstances(installationId) ==
    {i \in instances : i.tenant = installationId /\ i.state \in ListedStates}

DescribeInstancesSend(h, rejects) ==
    /\ h.pc = "describe"
    /\ calls' = Replace(calls, h,
           [h EXCEPT !.pc = "described",
                     !.ec2 = IF rejects THEN "describe_error" ELSE "described",
                     !.listed = IF rejects THEN {}
                                ELSE {i.InstanceId : i \in TaggedInstances(h.installationId)}])
    /\ returned' = NoCall
    /\ UNCHANGED <<deliveries, instances, config, queues, store, tableName, now, tenantCache, webhookCache>>

CleanupOutcomeRethrown(ec2) ==
    IF ec2 \in {"describe_error", "terminate_error"} THEN StoreError ELSE ReturnedVoid

\* terminateRunnersForTenant's catch logs the error and does not throw.
CleanupOutcome(ec2) == ReturnedVoid

\* After the listing: a failure or an empty list ends the handler, otherwise
\* the TerminateInstancesCommand is issued for the listed ids.
TerminateRunnersAfterDescribe(h) ==
    /\ h.pc = "described"
    /\ IF h.ec2 = "describe_error" \/ h.listed = {}
       THEN /\ calls' = Remove(calls, h)
            /\ returned' = [h EXCEPT !.pc = "done", !.ret = CleanupOutcome(h.ec2)]
       ELSE /\ calls' = Replace(calls, h, [h EXCEPT !.pc = "terminate"])
            /\ returned' = NoCall
    /\ UNCHANGED <<deliveries, instances, config, queues, store, tableName, now, tenantCache, webhookCache>>

TerminateInstancesSend(h, rejects) ==
    /\ h.pc = "terminate"
    /\ instances' = IF rejects THEN instances
                    ELSE {IF i.InstanceId \in h.listed
                          THEN [i EXCEPT !.state = "shutting-down"] ELSE i : i \in instances}
    /\ calls' = Replace(calls, h,
           [h EXCEPT !.pc = "terminated",
                     !.ec2 = IF rejects THEN "terminate_error" ELSE "terminated"])
    /\ returned' = NoCall
    /\ UNCHANGED <<deliveries, config, queues, store, tableName, now, tenantCache, webhookCache>>

TerminateRunnersAfterTerminate(h) ==
    /\ h.pc = "terminated"
    /\ calls' = Remove(calls, h)
    /\ returned' = [h EXCEPT !.pc = "done", !.ret = CleanupOutcome(h.ec2)]
    /\ UNCHANGED <<deliveries, instances, config, queues, store, tableName, now, tenantCache, webhookCache>>

CreateTenantSendUnconditional(h, rejects) ==
    /\ h.pc = "put"
    /\ LET id == h.installationId
           tenant == NewTenant(id, TierOrDefault(h.tier), h.at)
       IN  /\ store' = IF rejects THEN store
                       ELSE [k \in DOMAIN store \cup {id} |->
                                IF k = id THEN tenant ELSE store[k]]
           /\ calls' = Replace(calls, h,
                  [h EXCEPT !.pc = "created",
                            !.resp = IF rejects THEN [kind |-> "error", item |-> NullTenant]
                                     ELSE [kind |-> "item", item |-> tenant]])
    /\ returned' = NoCall
    /\ UNCHANGED <<deliveries, instances, config, queues, tableName, now, tenantCache, webhookCache>>

\* The PutCommand reaches the table: it rejects, fails its condition
\* attribute_not_exists(installation_id), or stores the new tenant.
CreateTenantSend(h, rejects) ==
    /\ h.pc = "put"
    /\ LET id == h.installationId
           tenant == NewTenant(id, TierOrDefault(h.tier), h.at)
           written == ~rejects /\ id \notin DOMAIN store
       IN  /\ store' = IF written
                       THEN [k \in DOMAIN store \cup {id} |->
                                IF k = id THEN tenant ELSE store[k]]
                       ELSE store
           /\ calls' = Replace(calls, h,
                  [h EXCEPT !.pc = "created",
                            !.resp = IF rejects THEN [kind |-> "error", item |-> NullTenant]
                                     ELSE IF written
                                          THEN [kind |-> "item", item |-> tenant]
                                          ELSE [kind |-> "ConditionalCheckFailedException",
                                                item |-> NullTenant]])
    /\ returned' = NoCall
    /\ UNCHANGED <<deliveries, instances, config, queues, tableName, now, tenantCache, webhookCache>>

\* After the put: the new tenant is returned, an error is rethrown, and a
\* failed condition makes createTenant read the existing tenant with getTenant.
CreateTenantAfterPut(h) ==
    /\ h.pc = "created"
    /\ IF h.resp.kind = "ConditionalCheckFailedException"
       THEN /\ calls' = Replace(calls, h, [h EXCEPT !.pc = "send"])
            /\ returned' = NoCall
       ELSE /\ calls' = Remove(calls, h)
            /\ returned' = [h EXCEPT !.pc = "done",
                                     !.ret = IF h.resp.kind = "item"
                                             THEN Returned(h.resp.item) ELSE StoreError]
    /\ UNCHANGED <<deliveries, instances, config, queues, store, tableName, now, tenantCache, webhookCache>>

\* After getTenant in createTenant's catch: the existing tenant is returned;
\* with none, or when the read failed, createTenant throws.
CreateTenantAfterGet(h) ==
    /\ h.pc = "resume"
    /\ h.op \in {"handleInstallation", "createTenant"}
    /\ calls' = Remove(calls, h)
    /\ returned' = [h EXCEPT !.pc = "done",
                             !.ret = IF h.resp.kind = "item"
                                     THEN Returned(h.resp.item) ELSE StoreError]
    /\ UNCHANGED <<deliveries, instances, config, queues, store, tableName, now, tenantCache, webhookCache>>

\* ------------------------------------------------- registry, called directly
\* The tiers offered to createTenant; "undefined" is an input without tier.
TierInputs == {"undefined", "medium", "large"}

\* The updates offered to updateTenant.
UpdateInputs == {[status |-> "suspended"], [tier |-> "large"],
                 [max_runners |-> 0], [tier |-> "medium", max_runners |-> 7]}

\* createTenant up to its PutCommand.
CreateTenantBegin(installationId, tier) ==
    LET c == [NoCall EXCEPT !.op = "createTenant", !.installationId = installationId,
                            !.tier = tier, !.at = now]
    IN  IF ~tableName THEN [c EXCEPT !.pc = "done", !.ret = StoreError]
        ELSE [c EXCEPT !.pc = "put"]

CreateTenantStart(installationId, tier) == Begin(CreateTenantBegin(installationId, tier))

\* updateTenant up to its UpdateCommand.
UpdateTenantBegin(installationId, updates) ==
    LET u == [NoCall EXCEPT !.op = "updateTenant", !.installationId = installationId,
                            !.updates = updates, !.at = now]
    IN  IF ~tableName THEN [u EXCEPT !.pc = "done", !.ret = StoreError]
        ELSE [u EXCEPT !.pc = "update"]

UpdateTenantStart(installationId, updates) == Begin(UpdateTenantBegin(installationId, updates))

UpdateOutcomeNullOnError(resp) ==
    IF resp.kind = "item" THEN Returned(resp.item) ELSE ReturnedNull

\* updateTenant's result: ALL_NEW, null when the condition failed, or the error.
UpdateOutcome(resp) ==
    CASE resp.kind = "item" -> Returned(resp.item)
      [] resp.kind = "ConditionalCheckFailedException" -> ReturnedNull
      [] OTHER -> StoreError

\* updateTenant after its await.
UpdateTenantReturn(u) ==
    /\ u.pc = "updated"
    /\ u.op = "updateTenant"
    /\ calls' = Remove(calls, u)
    /\ returned' = [u EXCEPT !.pc = "done", !.ret = UpdateOutcome(u.resp)]
    /\ UNCHANGED <<deliveries, instances, config, queues, store, tableName, now, tenantCache, webhookCache>>

\* What the caller awaited just before: a createTenant for the same id that
\* returned a tenant, and whether its put stored that tenant.
AfterOf(r, installationId) ==
    IF r.op = "createTenant" /\ r.installationId = installationId /\ r.ret.kind = "value"
    THEN [op |-> "createTenant", installationId |-> installationId, tier |-> r.tier,
          stored |-> r.reads = 0]
    ELSE NoAfter

\* getTenant up to its GetCommand.
GetTenantBegin(installationId) ==
    LET g == [NoCall EXCEPT !.op = "getTenant", !.installationId = installationId,
                            !.after = AfterOf(returned, installationId)]
    IN  IF ~tableName THEN [g EXCEPT !.pc = "done", !.ret = StoreError]
        ELSE [g EXCEPT !.pc = "send"]

GetTenantStart(installationId) == Begin(GetTenantBegin(installationId))

\* getTenant after its await: the item, null, or the error thrown on.
GetTenantReturn(g) ==
    /\ g.pc = "resume"
    /\ g.op = "getTenant"
    /\ calls' = Remove(calls, g)
    /\ returned' = [g EXCEPT !.pc = "done",
                             !.ret = CASE g.resp.kind = "item"   -> Returned(g.resp.item)
                                       [] g.resp.kind = "noitem" -> ReturnedNull
                                       [] OTHER                  -> StoreError]
    /\ UNCHANGED <<deliveries, instances, config, queues, store, tableName, now, tenantCache, webhookCache>>

\* ------------------------------------------------------------- dispatch
UpperCase == <<"A", "B", "C", "D", "E", "F", "G", "H", "I", "J", "K", "L", "M",
               "N", "O", "P", "Q", "R", "S", "T", "U", "V", "W", "X", "Y", "Z">>

LowerCase == <<"a", "b", "c", "d", "e", "f", "g", "h", "i", "j", "k", "l", "m",
               "n", "o", "p", "q", "r", "s", "t", "u", "v", "w", "x", "y", "z">>

\* The lower-case letter of each upper-case letter.
LowerOf == [c \in {UpperCase[k] : k \in 1..26} |->
               LowerCase[CHOOSE k \in 1..26 : UpperCase[k] = c]]

toLowerCaseKept(s) == s

\* String.prototype.toLowerCase on a string of characters.
toLowerCase(s) ==
    [i \in 1..Len(s) |-> IF s[i] \in DOMAIN LowerOf THEN LowerOf[s[i]] ELSE s[i]]

\* Array.prototype.includes
Includes(array, x) == \E i \in 1..Len(array) : array[i] = x

canRunJobNotInverted(workflowJobLabels, runnerLabelsMatchers, workflowLabelCheckAll) ==
    LET lowered == [r \in 1..Len(runnerLabelsMatchers) |->
                       [j \in 1..Len(runnerLabelsMatchers[r]) |->
                           toLowerCase(runnerLabelsMatchers[r][j])]]
    IN  IF workflowLabelCheckAll
        THEN \E r \in 1..Len(lowered) :
                \A w \in 1..Len(workflowJobLabels) :
                    Includes(lowered[r], toLowerCase(workflowJobLabels[w]))
        ELSE \E r \in 1..Len(lowered) :
                \E w \in 1..Len(workflowJobLabels) :
                    Includes(lowered[r], toLowerCase(workflowJobLabels[w]))

canRunJob(workflowJobLabels, runnerLabelsMatchers, workflowLabelCheckAll) ==
    LET lowered == [r \in 1..Len(runnerLabelsMatchers) |->
                       [j \in 1..Len(runnerLabelsMatchers[r]) |->
                           toLowerCase(runnerLabelsMatchers[r][j])]]
        matchLabels ==
            IF workflowLabelCheckAll
            THEN \E r \in 1..Len(lowered) :
                    \A w \in 1..Len(workflowJobLabels) :
                        Includes(lowered[r], toLowerCase(workflowJobLabels[w]))
            ELSE \E r \in 1..Len(lowered) :
                    \E w \in 1..Len(workflowJobLabels) :
                        Includes(lowered[r], toLowerCase(workflowJobLabels[w]))
    IN  IF Len(workflowJobLabels) = 0 THEN ~matchLabels ELSE matchLabels

UnsortedMatchers(matcherConfig) == matcherConfig

\* matcherConfig.sort(...): exact matchers first; the sort is stable.
SortedMatchers(matcherConfig) ==
    SelectSeq(matcherConfig, LAMBDA q : q.matcherConfig.exactMatch)
        \o SelectSeq(matcherConfig, LAMBDA q : ~q.matcherConfig.exactMatch)

ValidationError(statusCode, detail) ==
    [NoRet EXCEPT !.kind = "ValidationError", !.statusCode = statusCode, !.detail = detail]

Response(statusCode, detail) ==
    [NoRet EXCEPT !.kind = "Response", !.statusCode = statusCode, !.detail = detail]

ActionRequestMessageOfTenant(l, queueId, tenant) ==
    [installationId |-> tenant.installation_id,
     queueId |-> queueId,
     tenantId |-> IF tenant = NullTenant THEN <<>>
                  ELSE NumberToString(tenant.installation_id),
     tenantTier |-> IF tenant = NullTenant THEN "" ELSE tenant.tier]

\* The argument of sendActionRequest; tenant is NullTenant for null.
ActionRequestMessage(l, queueId, tenant) ==
    [installationId |-> l.installationId,
     queueId |-> queueId,
     tenantId |-> IF tenant = NullTenant THEN <<>>
                  ELSE NumberToString(tenant.installation_id),
     tenantTier |-> IF tenant = NullTenant THEN "" ELSE tenant.tier]

\* The queues handleWorkflowJob's loop finds able to run the job, in order.
MatchingQueues(labels, matcherConfig) ==
    SelectSeq(matcherConfig,
              LAMBDA q : canRunJob(labels, q.matcherConfig.labelMatchers,
                                   q.matcherConfig.exactMatch))

EveryMatchingQueue(matching) == matching

\* The loop returns at the first queue that can run the job.
QueuesSentTo(matching) == IF Len(matching) = 0 THEN <<>> ELSE <<matching[1]>>

DispatchContinueByTenantTier(l) ==
    LET sorted == SortedMatchers(config.matcherConfig)
        matching == MatchingQueues(l.event.labels, sorted)
        targets == QueuesSentTo(IF l.tenant = NullTenant THEN matching
                                ELSE SelectSeq(sorted, LAMBDA q : q.id = l.tenant.tier))
    IN  IF /\ Len(config.repositoryAllowList) > 0
           /\ ~Includes(config.repositoryAllowList, l.event.repository)
        THEN [call |-> [l EXCEPT !.pc = "done",
                                 !.ret = ValidationError(403, "unauthorized repository")],
              config |-> config]
        ELSE IF l.event.action # "queued"
        THEN [call |-> [l EXCEPT !.pc = "done", !.ret = Response(201, "not queued")],
              config |-> config]
        ELSE [call |-> IF Len(targets) = 0
                       THEN [l EXCEPT !.pc = "done", !.ret = Response(202, "not accepted")]
                       ELSE [l EXCEPT !.pc = "enqueue",
                                      !.queueIds = [i \in 1..Len(targets) |-> targets[i].id]],
              config |-> [config EXCEPT !.matcherConfig = sorted]]

DispatchContinueActionFirst(l) ==
    LET sorted == SortedMatchers(config.matcherConfig)
        targets == QueuesSentTo(MatchingQueues(l.event.labels, sorted))
    IN  IF l.event.action # "queued"
        THEN [call |-> [l EXCEPT !.pc = "done", !.ret = Response(201, "not queued")],
              config |-> config]
        ELSE IF /\ Len(config.repositoryAllowList) > 0
                /\ ~Includes(config.repositoryAllowList, l.event.repository)
        THEN [call |-> [l EXCEPT !.pc = "done",
                                 !.ret = ValidationError(403, "unauthorized repository")],
              config |-> config]
        ELSE [call |-> IF Len(targets) = 0
                       THEN [l EXCEPT !.pc = "done", !.ret = Response(202, "not accepted")]
                       ELSE [l EXCEPT !.pc = "enqueue",
                                      !.queueIds = [i \in 1..Len(targets) |-> targets[i].id]],
              config |-> [config EXCEPT !.matcherConfig = sorted]]

\* dispatch from validateTenant's result on: validateRepoInAllowList, then
\* handleWorkflowJob up to its await. Gives the call and the config, which the
\* sort has reordered in place.
DispatchContinue(l) ==
    LET sorted == SortedMatchers(config.matcherConfig)
        targets == QueuesSentTo(MatchingQueues(l.event.labels, sorted))
    IN  IF /\ Len(config.repositoryAllowList) > 0
           /\ ~Includes(config.repositoryAllowList, l.event.repository)
        THEN [call |-> [l EXCEPT !.pc = "done",
                                 !.ret = ValidationError(403, "unauthorized repository")],
              config |-> config]
        ELSE IF l.event.action # "queued"
        THEN [call |-> [l EXCEPT !.pc = "done", !.ret = Response(201, "not queued")],
              config |-> config]
        ELSE [call |-> IF Len(targets) = 0
                       THEN [l EXCEPT !.pc = "done", !.ret = Response(202, "not accepted")]
                       ELSE [l EXCEPT !.pc = "enqueue",
                                      !.queueIds = [i \in 1..Len(targets) |-> targets[i].id]],
              config |-> [config EXCEPT !.matcherConfig = sorted]]

\* The call once validateTenant has the lookup's result.
Resolved(l, outcome) == [l EXCEPT !.outcome = outcome.kind, !.tenant = outcome.tenant]

Rejected(l, statusCode, detail) ==
    [call |-> [l EXCEPT !.pc = "done", !.ret = ValidationError(statusCode, detail)],
     config |-> config]

ValidateTenantStatusIgnored(l, outcome) ==
    CASE outcome.kind = "not_found" -> Rejected(Resolved(l, outcome), 403, "unknown")
      [] OTHER -> DispatchContinue(Resolved(l, outcome))

\* validateTenant's switch on the lookup's outcome.
ValidateTenant(l, outcome) ==
    CASE outcome.kind = "disabled" -> DispatchContinue(Resolved(l, outcome))
      [] outcome.kind = "found" ->
            IF outcome.tenant.status # "active"
            THEN Rejected(Resolved(l, outcome), 403, outcome.tenant.status)
            ELSE DispatchContinue(Resolved(l, outcome))
      [] outcome.kind = "not_found" -> Rejected(Resolved(l, outcome), 403, "unknown")
      [] outcome.kind = "lookup_error" -> DispatchContinue(Resolved(l, outcome))

\* dispatch up to its first await on the table or the queue.
DispatchBegin(event, installationId) ==
    LET l == [NoCall EXCEPT !.op = "dispatch", !.event = event,
                            !.installationId = installationId]
        lookup == WebhookLookupBegin(installationId)
    IN  IF installationId = 0
        THEN IF tableName
             THEN Rejected(l, 400, "missing installation_id")
             ELSE DispatchContinue(l)
        ELSE IF lookup.pc = "done"
             THEN ValidateTenant(l, lookup.ret)
             ELSE [call |-> [l EXCEPT !.pc = "send"], config |-> config]

\* A call moves on to what r.call says, leaving r.config behind.
Proceed(l, r) ==
    /\ config' = r.config
    /\ IF r.call.pc = "done"
       THEN calls' = Remove(calls, l) /\ returned' = r.call
       ELSE calls' = Replace(calls, l, r.call) /\ returned' = NoCall

DispatchStart(event, installationId) ==
    /\ MayBegin("dispatch")
    /\ queues["small"] + queues["medium"] + queues["large"] < MaxQueued
    /\ LET r == DispatchBegin(event, installationId)
       IN  /\ config' = r.config
           /\ IF r.call.pc = "done"
              THEN calls' = calls /\ returned' = r.call
              ELSE calls' = Suspend(calls, r.call) /\ returned' = NoCall
    /\ UNCHANGED <<deliveries, instances, queues, store, tableName, now, tenantCache, webhookCache>>

\* dispatch after the webhook's getTenantCached read the table.
DispatchAfterLookup(l) ==
    /\ l.pc = "resume"
    /\ l.op = "dispatch"
    /\ webhookCache' = WebhookCacheAfterLookup(webhookCache, l, now)
    /\ Proceed(l, ValidateTenant(l, WebhookOutcome(l)))
    /\ UNCHANGED <<deliveries, instances, queues, store, tableName, now, tenantCache>>

\* sendActionRequest reaches the queue named by queueId: the send fails, or
\* the message is on that queue.
SendActionRequestSend(l, rejects) ==
    /\ l.pc = "enqueue"
    /\ queues' = IF rejects THEN queues
                 ELSE [q \in Tiers |->
                          queues[q] + Cardinality({i \in 1..Len(l.queueIds) : l.queueIds[i] = q})]
    /\ calls' = Replace(calls, l,
           [l EXCEPT !.pc = "enqueued",
                     !.resp = [kind |-> IF rejects THEN "error" ELSE "sent",
                               item |-> NullTenant],
                     !.sent = IF rejects THEN <<>>
                              ELSE [i \in 1..Len(l.queueIds) |->
                                       ActionRequestMessage(l, l.queueIds[i], l.tenant)]])
    /\ returned' = NoCall
    /\ UNCHANGED <<deliveries, instances, config, store, tableName, now, tenantCache, webhookCache>>

\* handleWorkflowJob after sendActionRequest: 201, or its error thrown on.
DispatchAfterEnqueue(l) ==
    /\ l.pc = "enqueued"
    /\ calls' = Remove(calls, l)
    /\ returned' = [l EXCEPT !.pc = "done",
                             !.ret = IF l.resp.kind = "error" THEN StoreError
                                     ELSE Response(201, "queued")]
    /\ UNCHANGED <<deliveries, instances, config, queues, store, tableName, now, tenantCache, webhookCache>>

\* ---------------------------------------------------------- environment
Tick(t) ==
    /\ t > now /\ now' = t
    /\ returned' = NoCall
    /\ UNCHANGED <<deliveries, instances, config, queues, store, tableName, tenantCache, webhookCache, calls>>

\* The record of a tenant leaves the table by other hands than the program's.
TenantRemoved(installationId) ==
    /\ installationId \in DOMAIN store
    /\ store' = [t \in DOMAIN store \ {installationId} |-> store[t]]
    /\ returned' = NoCall
    /\ UNCHANGED <<deliveries, instances, config, queues, tableName, now, tenantCache, webhookCache, calls>>

\* Installation ids are interchangeable: the onboarded ones are 1..k.
Init ==
    /\ \E k \in 0..NumTenants :
          store = [t \in 1..k |-> NewTenant(t, "small", 0)]
    /\ tableName \in BOOLEAN
    /\ now = 0
    /\ tenantCache = <<>>
    /\ webhookCache = <<>>
    /\ calls = EmptyBag
    /\ returned = NoCall
    /\ instances = {}
    /\ config = NoConfig
    /\ queues = NoQueues
    /\ deliveries = <<>>

\* The registry process: cached calls, invalidation and the clock.
Next ==
    \/ \E id \in Tenants : GetTenantCachedStart(id)
    \/ \E l \in BagToSet(calls), rejects \in BOOLEAN : GetTenantSend(l, rejects)
    \/ \E l \in BagToSet(calls) : GetTenantCachedResume(l)
    \/ \E id \in Tenants : invalidateTenantCache(id)
    \/ clearTenantCache
    \/ \E t \in Times : Tick(t)

Spec == Init /\ [][Next]_vars

\* The control plane (scale-up): its two fail-closed calls.
NextAdmission ==
    \/ \E tenantId \in TenantIdInputs : GetTenantConfigStart(tenantId)
    \/ \E id \in 0..NumProbed : GetTenantConfigByInstallationIdStart(id)
    \/ \E l \in BagToSet(calls), rejects \in BOOLEAN : GetTenantSend(l, rejects)
    \/ \E l \in BagToSet(calls) : GetTenantCachedResume(l)
    \/ Tick(CACHE_TTL_MS)

\* Only the probed installations matter to the Lambda handlers.
InitProbed == Init /\ DOMAIN store \subseteq Probed

SpecAdmission == InitProbed /\ [][NextAdmission]_vars

\* The two lookup policies side by side over one table: the webhook's graceful
\* lookup and the fail-closed lookup by installation id that re-checks it.
NextPolicies ==
    \/ \E id \in 0..NumProbed : GetTenantConfigByInstallationIdStart(id)
    \/ \E id \in Probed : WebhookGetTenantCachedStart(id)
    \/ \E l \in BagToSet(calls), rejects \in BOOLEAN : GetTenantSend(l, rejects)
    \/ \E l \in BagToSet(calls) : GetTenantCachedResume(l)
    \/ \E l \in BagToSet(calls) : WebhookGetTenantCachedResume(l)
    \/ Tick(CACHE_TTL_MS)

SpecPolicies == InitProbed /\ [][NextPolicies]_vars

\* The process has not run yet: its cache is empty and none of its calls is
\* in flight.
Fresh(process, cache) ==
    /\ cache = <<>>
    /\ \A l \in BagToSet(calls) : ProcessOf(l.op) # process

\* Both caches over a table that loses records: the registry's cached lookup,
\* the webhook's, the clock and the removal of a record. The two caches live in
\* two processes that share the table and nothing else, so a behaviour runs
\* one of the two processes against the table and the clock.
NextNegative ==
    \/ \E id \in Probed : Fresh("webhook", webhookCache) /\ GetTenantCachedStart(id)
    \/ \E id \in Probed : Fresh("caller", tenantCache) /\ WebhookGetTenantCachedStart(id)
    \/ \E l \in BagToSet(calls), rejects \in BOOLEAN : GetTenantSend(l, rejects)
    \/ \E l \in BagToSet(calls) : GetTenantCachedResume(l)
    \/ \E l \in BagToSet(calls) : WebhookGetTenantCachedResume(l)
    \/ \E id \in Probed : TenantRemoved(id)
    \/ Tick(CACHE_TTL_MS)

SpecNegative == InitProbed /\ [][NextNegative]_vars

\* Records a table may hold before the calls under study begin.
StoredBefore(installationId) ==
    {NewTenant(installationId, "small", 0),
     [NewTenant(installationId, "large", 0) EXCEPT !.status = "suspended", !.max_runners = 7]}

InitStored ==
    /\ Init
    /\ \E ids \in SUBSET Stored :
          store \in [ids -> UNION {StoredBefore(id) : id \in ids}]
    /\ \A id \in DOMAIN store : store[id].installation_id = id

\* createTenant and getTenant called directly and concurrently, and the clock.
NextCreate ==
    \/ \E id \in Stored, tier \in TierInputs : CreateTenantStart(id, tier)
    \/ \E id \in Stored : GetTenantStart(id)
    \/ \E c \in BagToSet(calls), rejects \in BOOLEAN : CreateTenantSend(c, rejects)
    \/ \E c \in BagToSet(calls) : CreateTenantAfterPut(c)
    \/ \E l \in BagToSet(calls), rejects \in BOOLEAN : GetTenantSend(l, rejects)
    \/ \E c \in BagToSet(calls) : CreateTenantAfterGet(c)
    \/ \E g \in BagToSet(calls) : GetTenantReturn(g)
    \/ Tick(CACHE_TTL_MS)

SpecCreate == InitStored /\ [][NextCreate]_vars

\* updateTenant called directly and concurrently, and the clock.
NextUpdate ==
    \/ \E id \in Stored, updates \in UpdateInputs : UpdateTenantStart(id, updates)
    \/ \E u \in BagToSet(calls), rejects \in BOOLEAN : UpdateTenantSend(u, rejects)
    \/ \E u \in BagToSet(calls) : UpdateTenantReturn(u)
    \/ Tick(CACHE_TTL_MS)

SpecUpdate == InitStored /\ [][NextUpdate]_vars

\* A process that looks tenants up through the cache, updates them and
\* invalidates or clears the cache; while a caller's next lookup of an id is
\* pending no other lookup of that id begins, so that it is the next one.
NextInvalidate ==
    \/ \E id \in Probed : ~LookupPending(id) /\ GetTenantCachedStart(id)
    \/ \E l \in BagToSet(calls), rejects \in BOOLEAN : GetTenantSend(l, rejects)
    \/ \E l \in BagToSet(calls) : GetTenantCachedResume(l)
    \/ \E id \in Probed : UpdateTenantStart(id, [status |-> "suspended"])
    \/ \E u \in BagToSet(calls), rejects \in BOOLEAN : UpdateTenantSend(u, rejects)
    \/ \E u \in BagToSet(calls) : UpdateTenantReturn(u)
    \/ \E id \in Probed : InvalidateThenLookup(id)
    \/ \E id \in Probed : ClearThenLookup(id)
    \/ \E c \in BagToSet(calls) : LookupAfter(c)

SpecInvalidate == InitProbed /\ [][NextInvalidate]_vars

\* An ascending sequence of the elements of a set of numbers.
RECURSIVE Ascending(_)
Ascending(S) ==
    IF S = {} THEN <<>>
    ELSE LET least == CHOOSE x \in S : \A y \in S : x <= y
         IN  <<least>> \o Ascending(S \ {least})

\* The instances that exist: instance i carries the tag of tenant
\* ((i - 1) % NumProbed) + 1.
InstanceIds == 1..NumInstances

\* The tenant manager: a process whose registry cache earlier lookups filled
\* at time 0, handling installation events one at a time.
InitLifecycle ==
    /\ \E k \in 0..NumProbed :
          store = [t \in 1..k |-> NewTenant(t, "small", 0)]
    /\ tableName \in BOOLEAN
    /\ now = 0
    /\ \E cached \in SUBSET DOMAIN store :
          tenantCache = [i \in 1..Cardinality(cached) |->
              [key |-> Ascending(cached)[i], tenant |-> store[Ascending(cached)[i]],
               expiry |-> CACHE_TTL_MS, refreshed |-> FALSE]]
    /\ webhookCache = <<>>
    /\ calls = EmptyBag
    /\ returned = NoCall
    /\ \E state \in [InstanceIds -> {"running", "terminated"}] :
          instances = {[InstanceId |-> i, tenant |-> ((i - 1) % NumProbed) + 1,
                        state |-> state[i]] : i \in InstanceIds}
    /\ config = NoConfig
    /\ queues = NoQueues
    /\ deliveries = <<>>

\* ---- the labels of the deployed runner tiers and of the jobs tried
SelfHosted == <<"s", "e", "l", "f", "-", "h", "o", "s", "t", "e", "d">>

Linux == <<"l", "i", "n", "u", "x">>

X64 == <<"x", "6", "4">>

TierLabel == [small  |-> <<"s", "m", "a", "l", "l">>,
              medium |-> <<"m", "e", "d", "i", "u", "m">>,
              large  |-> <<"l", "a", "r", "g", "e">>]

\* locals.matcher_config: one exact matcher per tier, in the order of the keys.
DeployedMatcherConfig ==
    [i \in 1..3 |->
        LET tier == <<"large", "medium", "small">>[i]
        IN  [id |-> tier,
             matcherConfig |-> [labelMatchers |-> <<<<SelfHosted, Linux, X64, TierLabel[tier]>>>>,
                                exactMatch |-> TRUE]]]

\* A configuration with a non-exact matcher ahead of an exact one and runner
\* labels in mixed case.
MixedMatcherConfig ==
    <<[id |-> "small",
       matcherConfig |-> [labelMatchers |-> <<<<<<"L", "i", "n", "u", "x">>, TierLabel["small"]>>>>,
                          exactMatch |-> FALSE]],
      [id |-> "large",
       matcherConfig |-> [labelMatchers |-> <<<<Linux, <<"X", "6", "4">>, TierLabel["large"]>>>>,
                          exactMatch |-> TRUE]]>>

\* workflow_job.labels of the events tried.
JobLabels == {<<>>,
              <<Linux, X64>>,
              <<<<"L", "I", "N", "U", "X">>, TierLabel["large"]>>,
              <<<<"g", "p", "u">>>>}

Events == [action : {"queued", "completed"}, labels : JobLabels,
           repository : {"acme/app", "acme/other"}]

\* The webhook over a table of tenants in any status.
InitWebhook ==
    /\ \E k \in 0..NumDispatched : \E status \in [1..k -> {"active", "suspended", "deleted"}] :
          store = [t \in 1..k |-> [NewTenant(t, "small", 0) EXCEPT !.status = status[t]]]
    /\ tableName \in BOOLEAN
    /\ now = 0
    /\ tenantCache = <<>>
    /\ webhookCache = <<>>
    /\ calls = EmptyBag
    /\ returned = NoCall
    /\ instances = {}
    /\ config \in [matcherConfig : {DeployedMatcherConfig, MixedMatcherConfig},
                   repositoryAllowList : {<<>>, <<"acme/app">>}]
    /\ queues = NoQueues
    /\ deliveries = <<>>

\* Alternatives a tier may declare: the deployed one of tier small, and
\* others in mixed case.
Alternatives == {<<SelfHosted, Linux, X64, TierLabel["small"]>>,
                 <<<<"L", "i", "n", "u", "x">>, TierLabel["medium"]>>,
                 <<<<"G", "P", "U">>>>}

\* workflow_job.labels given to canRunJob tried alone.
MatchedLabels == JobLabels \cup {<<SelfHosted, Linux, X64, TierLabel["small"]>>,
                                 <<SelfHosted, Linux, X64, TierLabel["medium"]>>,
                                 <<<<"L", "I", "N", "U", "X">>, TierLabel["medium"]>>}

\* canRunJob tried alone: one tier with up to MaxAlternatives alternatives in
\* either mode.
InitMatch ==
    /\ store = <<>>
    /\ tableName = TRUE
    /\ now = 0
    /\ tenantCache = <<>>
    /\ webhookCache = <<>>
    /\ calls = EmptyBag
    /\ returned = NoCall
    /\ instances = {}
    /\ queues = NoQueues
    /\ deliveries = <<>>
    /\ \E n \in 0..MaxAlternatives, exactMatch \in BOOLEAN :
          \E labelMatchers \in [1..n -> Alternatives] :
             config = [NoConfig EXCEPT !.matcherConfig =
                          <<[id |-> "small",
                             matcherConfig |-> [labelMatchers |-> labelMatchers,
                                                exactMatch |-> exactMatch]]>>]

\* canRunJob applied to a job's labels and the tier queue.
CanRunJobApply(workflowJobLabels, queue) ==
    /\ returned' = [NoCall EXCEPT
                       !.op = "canRunJob", !.pc = "done",
                       !.event.labels = workflowJobLabels,
                       !.queueIds = <<queue.id>>,
                       !.ret.kind = IF canRunJob(workflowJobLabels,
                                                 queue.matcherConfig.labelMatchers,
                                                 queue.matcherConfig.exactMatch)
                                    THEN "true" ELSE "false"]
    /\ UNCHANGED <<deliveries, instances, config, queues, store, tableName, now, tenantCache,
                   webhookCache, calls>>

NextMatch ==
    \E labels \in MatchedLabels, i \in 1..Len(config.matcherConfig) :
        CanRunJobApply(labels, config.matcherConfig[i])

SpecMatch == InitMatch /\ [][NextMatch]_vars

NextWebhook ==
    \/ \E event \in Events, id \in 0..NumDispatched : DispatchStart(event, id)
    \/ \E l \in BagToSet(calls), rejects \in BOOLEAN : GetTenantSend(l, rejects)
    \/ \E l \in BagToSet(calls) : DispatchAfterLookup(l)
    \/ \E l \in BagToSet(calls), rejects \in BOOLEAN : SendActionRequestSend(l, rejects)
    \/ \E l \in BagToSet(calls) : DispatchAfterEnqueue(l)

SpecWebhook == InitWebhook /\ [][NextWebhook]_vars

NextLifecycle ==
    \/ \E action \in InstallationActions, id \in Probed :
          HandleInstallationStart(action, id)
    \/ \E h \in BagToSet(calls), rejects \in BOOLEAN : UpdateTenantSend(h, rejects)
    \/ \E h \in BagToSet(calls) : HandlerAfterUpdate(h)
    \/ \E h \in BagToSet(calls), rejects \in BOOLEAN : DescribeInstancesSend(h, rejects)
    \/ \E h \in BagToSet(calls) : TerminateRunnersAfterDescribe(h)
    \/ \E h \in BagToSet(calls), rejects \in BOOLEAN : TerminateInstancesSend(h, rejects)
    \/ \E h \in BagToSet(calls) : TerminateRunnersAfterTerminate(h)
    \/ \E h \in BagToSet(calls), rejects \in BOOLEAN : CreateTenantSend(h, rejects)
    \/ \E h \in BagToSet(calls) : CreateTenantAfterPut(h)
    \/ \E h \in BagToSet(calls), rejects \in BOOLEAN : GetTenantSend(h, rejects)
    \/ \E h \in BagToSet(calls) : CreateTenantAfterGet(h)

SpecLifecycle == InitLifecycle /\ [][NextLifecycle]_vars

\* ------------------------------------------------------------------ claims
\* A lookup of the registry's getTenantCached went to the table in this step.
SentToStore(id) ==
    \E l \in BagToSet(calls') :
        /\ l.op = "getTenantCached" /\ l.installationId = id /\ l.pc = "send"
        /\ CopiesIn(l, calls') > CopiesIn(l, calls)

\* A lookup of id was served from the cache in this step.
ServedFromCache(id) ==
    /\ returned' # NoCall /\ returned'.installationId = id
    /\ returned'.reads = 0 /\ returned'.ret.kind = "value"

C9_CacheBound ==
    /\ Len(tenantCache) <= MAX_CACHE_SIZE
    /\ \A i, j \in 1..Len(tenantCache) :
          tenantCache[i].key = tenantCache[j].key => i = j

\* A new key was stored into a full cache while other calls were suspended.
C9_Witness ==
    /\ returned.op = "getTenantCached" /\ returned.resp.kind = "item"
    /\ returned.evicted # {}
    /\ Len(tenantCache) = MAX_CACHE_SIZE
    /\ InFlight(calls) = MaxInFlight - 1
    /\ \E l \in BagToSet(calls) : l.pc = "resume"

\* This step stored a key the full cache did not hold.
StoresNewKeyInFullCache ==
    /\ returned' # NoCall /\ returned'.op = "getTenantCached"
    /\ returned'.resp.kind = "item"
    /\ ~MapHas(tenantCache, returned'.installationId)
    /\ Len(tenantCache) = MAX_CACHE_SIZE
    /\ tenantCache' # tenantCache

\* C10 as amended: storing a new key into a full cache evicts exactly one
\* entry, the earliest inserted one, whether or not it was refreshed since.
C10_EvictsEarliestInserted ==
    [][StoresNewKeyInFullCache =>
          /\ Len(tenantCache') = MAX_CACHE_SIZE
          /\ MapKeys(tenantCache') =
                (MapKeys(tenantCache) \ {tenantCache[1].key})
                    \cup {returned'.installationId}]_vars

\* A refreshed key was evicted although a key that was never refreshed stayed.
C10_Witness ==
    /\ returned.op = "getTenantCached" /\ returned.resp.kind = "item"
    /\ Len(tenantCache) = MAX_CACHE_SIZE
    /\ \E e \in returned.evicted : e.refreshed
    /\ \E i \in 1..Len(tenantCache) :
          tenantCache[i].key # returned.installationId /\ ~tenantCache[i].refreshed

\* C10 as stated: the evicted key is the earliest inserted among the keys that
\* were not refreshed.
C10_EvictsEarliestUnrefreshed ==
    [][StoresNewKeyInFullCache =>
          LET unrefreshed == {i \in 1..Len(tenantCache) : ~tenantCache[i].refreshed}
          IN  unrefreshed # {} =>
                 LET first == CHOOSE i \in unrefreshed : \A j \in unrefreshed : i <= j
                 IN  ~MapHas(tenantCache', tenantCache[first].key)]_vars
FailClosedOps == {"getTenantConfig", "getTenantConfigByInstallationId"}

C2_PolicyDivergence ==
    /\ returned.op = "webhook.getTenantCached" =>
          /\ returned.ret.kind \in {"found", "not_found", "lookup_error", "disabled"}
          /\ returned.resp.kind = "error" <=> returned.ret.kind = "lookup_error"
          /\ returned.resp.kind = "noitem" <=> returned.ret.kind = "not_found"
          /\ returned.ret.kind = "disabled" => ~tableName /\ returned.reads = 0
          /\ returned.ret.kind = "found" <=> returned.ret.tenant # NullTenant
    /\ (returned.op \in FailClosedOps /\ returned.resp.kind = "error") =>
          returned.ret.kind = "TenantLookupError"

\* The webhook degraded on a failure while the fail-closed lookup of the same
\* installation has the same failure in hand.
C2_Witness ==
    /\ returned.op = "webhook.getTenantCached"
    /\ returned.ret.kind = "lookup_error"
    /\ \E l \in BagToSet(calls) :
          /\ l.op = "getTenantConfigByInstallationId"
          /\ l.installationId = returned.installationId
          /\ l.resp.kind = "error"

\* The installation handler that returned in this state, for one of the
\* three status-changing actions.
StatusHandlerReturned ==
    /\ returned.op = "handleInstallation"
    /\ returned.event.action \in {"suspend", "unsuspend", "deleted"}
    /\ returned.ret.kind = "void"

\* C5: when the handler of suspend / unsuspend / deleted returns, the cache of
\* its process has no entry for the tenant, and if the tenant's record existed
\* its stored status is suspended / active / deleted respectively.
C5_StatusSetAndCacheInvalidated ==
    StatusHandlerReturned =>
        /\ ~MapHas(tenantCache, returned.installationId)
        /\ returned.resp.kind = "item" =>
              store[returned.installationId].status =
                  (CASE returned.event.action = "suspend"   -> "suspended"
                     [] returned.event.action = "unsuspend" -> "active"
                     [] returned.event.action = "deleted"   -> "deleted")

\* The suspend handler returned for a stored tenant whose entry was cached.
C5_Witness ==
    /\ StatusHandlerReturned /\ returned.event.action = "suspend"
    /\ returned.resp.kind = "item" /\ returned.invalidated
    /\ store[returned.installationId].status = "suspended"

\* C6 as stated: no step of a lifecycle handler changes a stored status that
\* is 'deleted'.
C6_DeletedIsTerminal ==
    [][\A id \in DOMAIN store :
          store[id].status = "deleted" => store'[id].status = "deleted"]_vars

\* C7: a 'deleted' handler whose listing or terminating of instances failed
\* returns without raising, with the cache entry absent and the stored status
\* of an existing tenant still 'deleted'.
C7_CleanupFailureSwallowed ==
    (/\ returned.op = "handleInstallation" /\ returned.event.action = "deleted"
     /\ returned.ec2 \in {"describe_error", "terminate_error"})
    => /\ returned.ret.kind = "void"
       /\ ~MapHas(tenantCache, returned.installationId)
       /\ returned.resp.kind = "item" =>
             store[returned.installationId].status = "deleted"

\* The terminate call failed for a stored tenant whose entry had been cached
\* and whose instances were listed.
C7_Witness ==
    /\ returned.op = "handleInstallation" /\ returned.event.action = "deleted"
    /\ returned.ec2 = "terminate_error" /\ returned.listed # {}
    /\ returned.resp.kind = "item" /\ returned.invalidated
    /\ returned.ret.kind = "void"
    /\ store[returned.installationId].status = "deleted"

\* The dispatches under way and the one that just returned.
Dispatches == {c \in BagToSet(calls) \cup {returned} : c.op = "dispatch"}

\* A dispatch in multi-tenant mode whose event has no installation id, whose
\* lookup found no tenant, or whose tenant is not active.
MustReject(c) ==
    /\ tableName
    /\ \/ c.installationId = 0
       \/ c.outcome = "not_found"
       \/ c.outcome = "found" /\ c.tenant.status # "active"

\* C3: in multi-tenant mode a dispatch whose event carries no installation id
\* ends with 400, one whose lookup answers not_found ends with 403, one whose
\* tenant record is not active ends with 403 naming the status; none of them
\* reaches the enqueue or has sent a message, and the step in which it returns
\* leaves every tier queue as it was.
C3_RejectedNeverEnqueued ==
    /\ [](\A c \in Dispatches :
            MustReject(c) =>
                /\ c.pc = "done" /\ c.sent = <<>>
                /\ c.ret = (CASE c.installationId = 0  ->
                                     ValidationError(400, "missing installation_id")
                              [] c.outcome = "not_found" -> ValidationError(403, "unknown")
                              [] OTHER -> ValidationError(403, c.tenant.status)))
    /\ [][returned'.op = "dispatch" /\ MustReject(returned') => queues' = queues]_vars

\* A queued job whose labels match a tier, from an allowed repository, was
\* rejected because its tenant's record read from the table is suspended.
C3_Witness ==
    /\ returned.op = "dispatch" /\ tableName
    /\ returned.resp.kind = "item" /\ returned.tenant.status = "suspended"
    /\ returned.ret = ValidationError(403, "suspended")
    /\ returned.event.action = "queued"
    /\ Len(MatchingQueues(returned.event.labels, config.matcherConfig)) > 0
    /\ Includes(config.repositoryAllowList, returned.event.repository)

QueuedTotal(q) == q["small"] + q["medium"] + q["large"]

\* C4: a dispatch that returns accepted has enqueued exactly one message, to
\* the first queue of the sorted configuration that can run the job; one that
\* returns anything else has enqueued none; and a step that changes the queues
\* adds one message to one queue, the one the dispatch then names.
C4_OneEnqueuePerAccepted ==
    /\ [](returned.op = "dispatch" =>
            IF returned.ret = Response(201, "queued")
            THEN /\ Len(returned.sent) = 1
                 /\ returned.sent[1].queueId =
                        MatchingQueues(returned.event.labels, config.matcherConfig)[1].id
            ELSE returned.sent = <<>>)
    /\ [][queues' # queues =>
            \E c \in BagToSet(calls') :
                /\ c.op = "dispatch" /\ c.pc = "enqueued" /\ Len(c.sent) = 1
                /\ queues' = [queues EXCEPT ![c.sent[1].queueId] = @ + 1]]_vars

\* A job that several tiers can run was accepted with one message enqueued.
C4_Witness ==
    /\ returned.op = "dispatch" /\ returned.ret = Response(201, "queued")
    /\ Len(MatchingQueues(returned.event.labels, config.matcherConfig)) > 1
    /\ Len(returned.sent) = 1
    /\ QueuedTotal(queues) = 1

\* C11: when getTenantCached stores the item of a key the cache already holds
\* (its entry expired or not), the cache holds the same keys in the same order
\* afterwards and every other entry is as it was, also in a full cache.
C11_RefreshKeepsKeys ==
    [][(/\ returned'.op = "getTenantCached" /\ returned'.resp.kind = "item"
        /\ MapHas(tenantCache, returned'.installationId))
       => /\ Len(tenantCache') = Len(tenantCache)
          /\ \A i \in 1..Len(tenantCache) :
                IF tenantCache[i].key = returned'.installationId
                THEN tenantCache'[i].key = tenantCache[i].key
                ELSE tenantCache'[i] = tenantCache[i]]_vars

\* An expired key was refreshed in a full cache and nothing was evicted.
C11_Witness ==
    /\ returned.op = "getTenantCached" /\ returned.resp.kind = "item"
    /\ Len(tenantCache) = MAX_CACHE_SIZE
    /\ MapGet(tenantCache, returned.installationId).refreshed
    /\ returned.evicted = {}

\* C12: a cached lookup whose store read found no item leaves no entry for its
\* id in the cache it serves (the registry's or the webhook's), whatever was
\* cached before, so a lookup of that id begun then is sent to the store.
C12_NegativeNeverCached ==
    /\ (returned.op \in CachedLookupOps /\ returned.resp.kind = "noitem")
          => /\ ~MapHas(tenantCache, returned.installationId)
             /\ CachedLookupBegin(returned.op, returned.installationId,
                                  returned.identifier).pc = "send"
    /\ (returned.op = "webhook.getTenantCached" /\ returned.resp.kind = "noitem")
          => /\ ~MapHas(webhookCache, returned.installationId)
             /\ WebhookLookupBegin(returned.installationId).pc = "send"

\* A lookup found no item for an id whose expired entry was still cached.
C12_Witness ==
    /\ returned.op = "getTenantCached" /\ returned.resp.kind = "noitem"
    /\ returned.ret.kind = "null"
    /\ returned.invalidated
    /\ now >= CACHE_TTL_MS

\* The webhook's lookup did the same in its own cache.
C12_WitnessWebhook ==
    /\ returned.op = "webhook.getTenantCached" /\ returned.resp.kind = "noitem"
    /\ returned.ret.kind = "not_found"
    /\ returned.invalidated

\* A getTenant(id) returned whose caller had just been given a tenant by
\* createTenant for that id, and whose read the table answered.
GetFollowedCreate ==
    /\ returned.op = "getTenant" /\ returned.after.op = "createTenant"
    /\ returned.resp.kind # "error"

\* The record is active, of the tier given to createTenant ('small' when none
\* was given) and limited to that tier's default.
AsCreated(tenant, tier) ==
    /\ tenant.status = "active"
    /\ tenant.tier = IF tier = "undefined" THEN "small" ELSE tier
    /\ tenant.max_runners = TIER_LIMITS[tenant.tier]

\* C14 as stated: createTenant(t) followed by getTenant(t.installation_id)
\* returns a record that is active, of t's tier ('small' when t has none), with
\* max_runners equal to TIER_LIMITS of that tier, for all tenants t.
C14_CreateThenGet ==
    GetFollowedCreate
        => /\ returned.ret.kind = "value"
           /\ AsCreated(returned.ret.tenant, returned.after.tier)

\* C14 amended: the same, for every tenant t whose id had no record when
\* createTenant's put reached the table.
C14_FreshCreateThenGet ==
    (GetFollowedCreate /\ returned.after.stored)
        => /\ returned.ret.kind = "value"
           /\ AsCreated(returned.ret.tenant, returned.after.tier)

\* getTenant returned the record a createTenant with tier 'large' had stored.
C14_Witness ==
    /\ GetFollowedCreate /\ returned.after.stored
    /\ returned.after.tier = "large"
    /\ returned.ret.tenant.max_runners = TIER_LIMITS["large"]

UpdateLands(u, d) ==
    /\ u \in BagToSet(calls) /\ u.op = "updateTenant" /\ u.pc = "update"
    /\ d = [u EXCEPT !.pc = "updated", !.resp = d.resp]
    /\ calls' = Replace(calls, u, d)

\* C16: an updateTenant(id, u) that writes an existing record sets max_runners
\* to u.max_runners when given, else to TIER_LIMITS[u.tier] when u.tier is
\* given, else leaves tier and max_runners as they were; it sets the fields u
\* names, rewrites updated_at with the instant the call sampled and leaves
\* installation_id, created_at and every field u does not name unchanged.
C16_UpdateDerivesLimit ==
    [][\A u \in BagToSet(calls), d \in BagToSet(calls') :
          (UpdateLands(u, d) /\ d.resp.kind = "item")
          => LET id  == u.installationId
                 old == store[id]
                 new == store'[id]
                 named == DOMAIN u.updates
             IN  /\ d.resp.item = new
                 /\ new.max_runners =
                       IF "max_runners" \in named THEN u.updates.max_runners
                       ELSE IF "tier" \in named THEN TIER_LIMITS[u.updates.tier]
                       ELSE old.max_runners
                 /\ new.tier = IF "tier" \in named THEN u.updates.tier ELSE old.tier
                 /\ new.status = IF "status" \in named THEN u.updates.status ELSE old.status
                 /\ new.updated_at = u.at
                 /\ new.installation_id = old.installation_id
                 /\ new.created_at = old.created_at]_vars

\* An update of the tier alone, sampled after the record's creation, gave a
\* suspended tenant the tier 'large' and that tier's default limit.
C16_Witness ==
    \E d \in BagToSet(calls) :
        /\ d.op = "updateTenant" /\ d.pc = "updated" /\ d.resp.kind = "item"
        /\ d.updates = [tier |-> "large"]
        /\ d.resp.item = store[d.installationId]
        /\ store[d.installationId].max_runners = TIER_LIMITS["large"]
        /\ store[d.installationId].status = "suspended"
        /\ store[d.installationId].updated_at > store[d.installationId].created_at

\* C17: an updateTenant whose id has no record leaves the table as it is and
\* returns null without raising; an updateTenant whose command the table
\* rejected for another reason raises and does not return null.
C17_UpdateMissingIsNull ==
    /\ [](returned.op = "updateTenant" /\ returned.pc = "done" /\ tableName
            => /\ returned.resp.kind = "ConditionalCheckFailedException"
                    => returned.ret.kind = "null"
               /\ returned.resp.kind = "error" => returned.ret.kind = "Error"
               /\ returned.resp.kind = "item" => returned.ret.kind = "value")
    /\ [][\A u \in BagToSet(calls), d \in BagToSet(calls') :
             (UpdateLands(u, d) /\ u.installationId \notin DOMAIN store)
             => /\ store' = store
                /\ d.resp.kind \in {"ConditionalCheckFailedException", "error"}]_vars

\* updateTenant returned null for an id that has no record.
C17_Witness ==
    /\ returned.op = "updateTenant" /\ returned.ret.kind = "null"
    /\ returned.resp.kind = "ConditionalCheckFailedException"
    /\ returned.installationId \notin DOMAIN store

\* The two labels are the same but for the case of their letters.
EqualIgnoringCase(a, b) ==
    /\ Len(a) = Len(b)
    /\ \A i \in 1..Len(a) :
          \/ a[i] = b[i]
          \/ \E k \in 1..26 : {a[i], b[i]} = {UpperCase[k], LowerCase[k]}

\* The alternative holds the label, case aside.
Holds(alternative, label) ==
    \E j \in 1..Len(alternative) : EqualIgnoringCase(alternative[j], label)

\* canRunJob returned for the one tier queue of the configuration.
CanRunJobReturned == returned.op = "canRunJob"

\* C18: for a job with at least one label canRunJob is true exactly when some
\* alternative of the tier holds every label of the job (exactMatch) or some
\* alternative holds at least one of them (not exactMatch), case aside; the
\* labels [self-hosted, linux, x64, small] match the exact tier
\* [[self-hosted, linux, x64, small]] and [self-hosted, linux, x64, medium] do not.
C18_CanRunJobMatches ==
    (CanRunJobReturned /\ Len(returned.event.labels) >= 1)
    => LET labels == returned.event.labels
           tier == config.matcherConfig[1].matcherConfig
           alts == tier.labelMatchers
           deployed == <<SelfHosted, Linux, X64, TierLabel["small"]>>
       IN  /\ returned.ret.kind = "true" <=>
                 IF tier.exactMatch
                 THEN \E r \in 1..Len(alts) :
                         \A w \in 1..Len(labels) : Holds(alts[r], labels[w])
                 ELSE \E r \in 1..Len(alts) :
                         \E w \in 1..Len(labels) : Holds(alts[r], labels[w])
           /\ (tier.exactMatch /\ alts = <<deployed>>)
                 => /\ labels = deployed => returned.ret.kind = "true"
                    /\ labels = <<SelfHosted, Linux, X64, TierLabel["medium"]>>
                          => returned.ret.kind = "false"

\* A job whose labels are LINUX and medium matched an exact tier whose second
\* alternative declares Linux and medium.
C18_Witness ==
    /\ CanRunJobReturned /\ returned.ret.kind = "true"
    /\ config.matcherConfig[1].matcherConfig.exactMatch
    /\ returned.event.labels = <<<<"L", "I", "N", "U", "X">>, TierLabel["medium"]>>
    /\ Len(config.matcherConfig[1].matcherConfig.labelMatchers) = 2
    /\ ~Holds(config.matcherConfig[1].matcherConfig.labelMatchers[1], TierLabel["medium"])

\* C19: for a job without labels canRunJob is the negation of the match
\* computation, which over no labels is true exactly for an exactMatch tier
\* with at least one alternative: canRunJob is true for every tier that is not
\* exactMatch and false for every exactMatch tier that declares an alternative.
C19_ZeroLabelsInverted ==
    (CanRunJobReturned /\ Len(returned.event.labels) = 0)
    => LET tier == config.matcherConfig[1].matcherConfig
       IN  /\ ~tier.exactMatch => returned.ret.kind = "true"
           /\ (tier.exactMatch /\ Len(tier.labelMatchers) >= 1)
                 => returned.ret.kind = "false"
           /\ returned.ret.kind = "true" <=>
                 ~(tier.exactMatch /\ Len(tier.labelMatchers) >= 1)

\* A job without labels matched a tier that is not exactMatch.
C19_Witness ==
    /\ CanRunJobReturned /\ Len(returned.event.labels) = 0
    /\ ~config.matcherConfig[1].matcherConfig.exactMatch
    /\ Len(config.matcherConfig[1].matcherConfig.labelMatchers) >= 1
    /\ returned.ret.kind = "true"

\* The matcher configuration as configured, before any dispatch sorted it.
Configured ==
    CHOOSE c \in {DeployedMatcherConfig, MixedMatcherConfig} :
        {c[i] : i \in 1..Len(c)} =
            {config.matcherConfig[i] : i \in 1..Len(config.matcherConfig)}

\* The positions in the configured order of the tiers that can run the job.
CanRun(labels) ==
    {j \in 1..Len(Configured) :
        canRunJob(labels, Configured[j].matcherConfig.labelMatchers,
                  Configured[j].matcherConfig.exactMatch)}

\* C20: a dispatch that selects a tier for a queued job selects one tier that
\* can run the job; an exactMatch tier whenever one can run it; and the
\* earliest in the configured order among the tiers of the selected tier's
\* mode that can run it. The selection depends on the configuration as
\* configured and on the job's labels only, so a repeated dispatch, which
\* finds the configuration sorted by the one before, selects the same tier.
C20_ExactTierFirst ==
    \A l \in Dispatches :
        Len(l.queueIds) > 0 =>
            /\ Len(l.queueIds) = 1
            /\ \E i \in CanRun(l.event.labels) :
                  /\ Configured[i].id = l.queueIds[1]
                  /\ (\E j \in CanRun(l.event.labels) : Configured[j].matcherConfig.exactMatch)
                        => Configured[i].matcherConfig.exactMatch
                  /\ \A j \in CanRun(l.event.labels) :
                        Configured[j].matcherConfig.exactMatch
                            = Configured[i].matcherConfig.exactMatch => i <= j

\* A dispatch selected the exact tier 'large', configured after a non-exact
\* tier that can run the job too; the configuration is left sorted.
C20_Witness ==
    \E l \in Dispatches :
        /\ l.queueIds = <<"large">>
        /\ Configured = MixedMatcherConfig
        /\ config.matcherConfig # Configured
        /\ l.pc = "enqueue"
        /\ Cardinality(CanRun(l.event.labels)) = 2
        /\ ~Configured[1].matcherConfig.exactMatch

\* A job that the three exact tiers as deployed can run went to the first.
C20_WitnessSameMode ==
    \E l \in Dispatches :
        /\ Configured = DeployedMatcherConfig
        /\ Cardinality(CanRun(l.event.labels)) = 3
        /\ l.queueIds = <<Configured[1].id>>

\* The getTenantCached calls that were the first for their id since the caller
\* invalidated that id or cleared the cache.
LookupsAfter ==
    {l \in BagToSet(calls) \cup {returned} :
        l.after.op \in {"invalidateTenantCache", "clearTenantCache"}}

\* C13 as stated: the next getTenantCached(id) of the process after
\* invalidateTenantCache(id), and after clearTenantCache() the next one for
\* any id, is not served from the cache: it reads the table and returns the
\* record its read found there; and invalidateTenantCache(id) leaves the
\* entries of every other id as they were.
C13_InvalidateForcesRead ==
    /\ [](\A l \in LookupsAfter :
            /\ tableName => (l.pc = "send" \/ l.reads = 1)
            /\ (l.pc = "done" /\ l.ret.kind = "value")
                  => (l.resp.kind = "item" /\ l.ret.tenant = l.resp.item))
    /\ [][\A c \in BagToSet(calls') :
             (c.pc = "invalidated" /\ c \notin BagToSet(calls))
             => tenantCache' = SelectSeq(tenantCache,
                                         LAMBDA e : e.key # c.installationId)]_vars

\* The control plane over a table whose tenants are in any status.
InitStatuses ==
    /\ \E k \in 0..NumProbed :
       \E status \in [1..k -> {"active", "suspended", "deleted"}] :
          store = [t \in 1..k |-> [NewTenant(t, "small", 0) EXCEPT !.status = status[t]]]
    /\ tableName \in BOOLEAN
    /\ now = 0
    /\ tenantCache = <<>>
    /\ webhookCache = <<>>
    /\ calls = EmptyBag
    /\ returned = NoCall
    /\ instances = {}
    /\ config = NoConfig
    /\ queues = NoQueues
    /\ deliveries = <<>>

SpecFailClosed == InitStatuses /\ [][NextAdmission]_vars

\* C21: in multi-tenant mode a fail-closed lookup returns a tenant only when
\* the tenant's status is 'active'; for a suspended or deleted tenant it does
\* not return successfully.
C21_InactiveBlocked ==
    (returned.op \in FailClosedOps /\ returned.ret.kind = "value")
        => returned.ret.tenant.status = "active"

\* C24: when TENANT_TABLE_NAME is not set, getTenantConfig(tenantId) returns
\* null for every tenantId, raises nothing and reads nothing from the table.
C24_NullWithoutTable ==
    (returned.op = "getTenantConfig" /\ ~tableName)
        => returned.ret.kind = "null" /\ returned.reads = 0

\* The tenantId is the decimal representation of an integer.
IsDecimal(tenantId) ==
    /\ Len(tenantId) > 0
    /\ \A i \in 1..Len(tenantId) : IsDigit(tenantId[i])

\* C30: in multi-tenant mode getTenantConfig(tenantId) raises TenantLookupError
\* carrying tenantId, with no table read and no change of the cache, for every
\* tenantId that is empty or is not the decimal representation of an integer,
\* a numeric prefix followed by other characters included.
C30_MalformedIdRejected ==
    /\ []((returned.op = "getTenantConfig" /\ tableName
             /\ ~IsDecimal(returned.identifier))
            => /\ returned.ret = TenantLookupError(returned.identifier)
               /\ returned.reads = 0)
    /\ [][(returned'.op = "getTenantConfig" /\ tableName
             /\ ~IsDecimal(returned'.identifier))
            => tenantCache' = tenantCache]_vars

\* The tenant manager deployed with DEFAULT_TENANT_TIER set to any of the
\* tiers var.default_tenant_tier admits.
InitOnboard ==
    /\ \E k \in 0..NumProbed :
          store = [t \in 1..k |-> NewTenant(t, "small", 0)]
    /\ tableName \in BOOLEAN
    /\ now = 0
    /\ tenantCache = <<>>
    /\ webhookCache = <<>>
    /\ calls = EmptyBag
    /\ returned = NoCall
    /\ instances = {}
    /\ config \in [DEFAULT_TENANT_TIER : Tiers]
    /\ queues = NoQueues
    /\ deliveries = <<>>

\* Installations of the app, handled one at a time.
NextOnboard ==
    \/ \E id \in Probed : HandleInstallationStart("created", id)
    \/ \E h \in BagToSet(calls), rejects \in BOOLEAN : CreateTenantSend(h, rejects)
    \/ \E h \in BagToSet(calls) : CreateTenantAfterPut(h)
    \/ \E h \in BagToSet(calls), rejects \in BOOLEAN : GetTenantSend(h, rejects)
    \/ \E h \in BagToSet(calls) : CreateTenantAfterGet(h)
    \/ \E t \in Times : Tick(t)

SpecOnboard == InitOnboard /\ [][NextOnboard]_vars

\* C25: the record the 'created' action stores has the tier the deployment
\* configures as DEFAULT_TENANT_TIER and that tier's max_runners.
C25_ConfiguredDefaultTier ==
    [][\A id \in Probed :
          (id \notin DOMAIN store /\ id \in DOMAIN store')
          => /\ store'[id].tier = config.DEFAULT_TENANT_TIER
             /\ store'[id].max_runners = TIER_LIMITS[config.DEFAULT_TENANT_TIER]]_vars

\* The handlers under way and the one that just returned.
Handlers == {h \in BagToSet(calls) \cup {returned} : h.op = "handleInstallation"}

\* C26: the handlers of 'suspend', 'unsuspend' and 'created' issue no
\* DescribeInstances and no TerminateInstances command and leave every
\* instance as it was; a step that changes an instance belongs to a 'deleted'
\* handler.
C26_OnlyDeletedTouchesCompute ==
    /\ [](\A h \in Handlers :
            h.event.action \in {"suspend", "unsuspend", "created"}
            => /\ h.ec2 = "none" /\ h.listed = {}
               /\ h.pc \notin {"describe", "described", "terminate", "terminated"})
    /\ [][instances' # instances
            => \E h \in BagToSet(calls) :
                  h.op = "handleInstallation" /\ h.event.action = "deleted"]_vars

\* The suspend handler returned for a stored tenant whose tagged instances
\* are still running.
C26_Witness ==
    /\ returned.op = "handleInstallation" /\ returned.event.action = "suspend"
    /\ returned.ret.kind = "void" /\ returned.resp.kind = "item"
    /\ store[returned.installationId].status = "suspended"
    /\ \E i \in instances : i.tenant = returned.installationId /\ i.state = "running"

\* C27: an installation event whose action is none of created, deleted,
\* suspend, unsuspend is answered at once without raising: no command is
\* sent to the table or to EC2, and the table, the cache and the instances
\* stay as they were.
C27_UnknownActionIgnored ==
    /\ [](\A h \in Handlers :
            h.event.action \notin {"created", "deleted", "suspend", "unsuspend"}
            => h = returned /\ h.ret.kind = "void" /\ h.resp = NoResp /\ h.ec2 = "none")
    /\ [][(returned'.op = "handleInstallation"
           /\ returned'.event.action \notin {"created", "deleted", "suspend", "unsuspend"})
          => /\ store' = store /\ tenantCache' = tenantCache
             /\ instances' = instances /\ calls' = calls]_vars

\* An unknown action was ignored for a stored, cached tenant with a running
\* instance.
C27_Witness ==
    /\ returned.op = "handleInstallation"
    /\ returned.event.action = "new_permissions_accepted"
    /\ returned.ret.kind = "void"
    /\ tableName
    /\ returned.installationId \in DOMAIN store
    /\ store[returned.installationId].status = "active"
    /\ MapHas(tenantCache, returned.installationId)
    /\ \E i \in instances : i.tenant = returned.installationId /\ i.state = "running"

\* The ids of the instances a step changed.
Changed == {i.InstanceId : i \in instances \ instances'}

\* C28: the 'deleted' handler lists the instances tagged with its tenant in
\* the states pending, running, stopping, stopped; its terminate command
\* changes exactly the listed instances, none of them another tenant's; with
\* an empty list it sends no terminate command and returns with the status
\* update done.
C28_TerminatesExactlyListed ==
    /\ [](\A h \in Handlers :
            /\ h.ec2 # "none" =>
                  \A id \in h.listed : \E i \in instances :
                      i.InstanceId = id /\ i.tenant = h.installationId
            /\ (h = returned /\ h.ec2 = "described" /\ h.listed = {})
                  => /\ h.ret.kind = "void"
                     /\ h.resp.kind = "item" => store[h.installationId].status = "deleted")
    /\ [][/\ \A h \in BagToSet(calls') :
                (h.pc = "described" /\ h.ec2 = "described" /\ h \notin BagToSet(calls))
                => h.listed = {i.InstanceId : i \in
                                  {j \in instances : /\ j.tenant = h.installationId
                                                     /\ j.state \in {"pending", "running",
                                                                     "stopping", "stopped"}}}
          /\ \A h \in BagToSet(calls) :
                (h.pc = "terminate" /\ h \notin BagToSet(calls'))
                => /\ h.listed # {}
                   /\ Changed \in {{}, h.listed}
          /\ instances' # instances
                => \E h \in BagToSet(calls) : h.pc = "terminate" /\ Changed = h.listed]_vars

\* The listed instances of the deleted tenant were terminated while another
\* tenant's instance kept running.
C28_Witness ==
    /\ returned.op = "handleInstallation" /\ returned.event.action = "deleted"
    /\ returned.ec2 = "terminated" /\ Cardinality(returned.listed) >= 2
    /\ returned.resp.kind = "item"
    /\ store[returned.installationId].status = "deleted"
    /\ \A i \in instances :
          i.InstanceId \in returned.listed => i.state = "shutting-down"
    /\ \E i \in instances : i.tenant # returned.installationId /\ i.state = "running"

\* The deleted tenant had no instance to list: no terminate command was sent.
C28_WitnessEmpty ==
    /\ returned.op = "handleInstallation" /\ returned.event.action = "deleted"
    /\ returned.ec2 = "described" /\ returned.listed = {}
    /\ returned.resp.kind = "item" /\ returned.ret.kind = "void"
    /\ store[returned.installationId].status = "deleted"

\* C29: whatever the event, the lookup's outcome and the outcome of
\* sendActionRequest, dispatch ends with one of: the 201 of a queued job, the
\* 201 of a job that is not queued, the 202 of labels no tier accepts, or a
\* ValidationError with status 400 or 403; nothing else is thrown.
C29_DefinitiveOutcome ==
    returned.op = "dispatch"
    => \/ returned.ret.kind = "Response" /\ returned.ret.statusCode \in {201, 202}
       \/ returned.ret.kind = "ValidationError" /\ returned.ret.statusCode \in {400, 403}

\* ------------------------------------------- admission controller (scale-up)
\* redrive_policy.maxReceiveCount of the tier queues.
MaxReceiveCount == 3

NumMessages == 2

Messages == 1..NumMessages

\* The instances of a tenant that count against its limit.
LiveRunners(installationId) ==
    {i \in instances : i.tenant = installationId /\ i.state \in {"pending", "running"}}

\* The fail-closed lookup an admission starts with: by the message's tenantId
\* when the webhook resolved the tenant, else by its installationId.
AdmitLookupBegin(m) ==
    LET d == deliveries[m]
        l == IF Len(d.tenantId) > 0
             THEN GetTenantConfigBegin(d.tenantId)
             ELSE GetTenantConfigByInstallationIdBegin(d.installationId)
    IN  [l EXCEPT !.message = m]

\* The admission once its lookup is over: with the tenant it goes on to the
\* limit, with null (no multi-tenant mode) to creation, and a TenantLookupError
\* ends the invocation.
AdmitContinue(a, outcome) ==
    CASE outcome.kind = "value" -> [a EXCEPT !.pc = "count", !.ret = outcome,
                                             !.tenant = outcome.tenant]
      [] outcome.kind = "null"  -> [a EXCEPT !.pc = "create", !.ret = outcome]
      [] OTHER                  -> [a EXCEPT !.pc = "done", !.ret = outcome,
                                             !.outcome = "aborted"]

\* The queue's record of message m after a step of its admission a: a failed
\* invocation makes it visible again, `resolved` remembers a lookup that gave
\* the tenant.
Delivered(d, a) ==
    [d EXCEPT !.state = IF a.pc = "done" THEN "visible" ELSE "inflight",
              !.resolved = @ \/ a.ret.kind = "value"]

\* The queue hands a visible message to an invocation of the scale-up Lambda,
\* which runs up to its first await. The invocations' lookups go through one
\* cache here; invocations in separate containers would only miss more often.
Receive(m) ==
    /\ deliveries[m].state = "visible"
    /\ deliveries[m].receiveCount < MaxReceiveCount
    /\ InFlight(calls) < MaxInFlight
    /\ LET l == AdmitLookupBegin(m)
           a == IF l.pc = "done" THEN AdmitContinue(l, l.ret) ELSE l
       IN  /\ deliveries' = [deliveries EXCEPT
                                ![m] = Delivered([@ EXCEPT !.receiveCount = @ + 1], a)]
           /\ IF a.pc = "done"
              THEN calls' = calls /\ returned' = a
              ELSE calls' = Suspend(calls, a) /\ returned' = NoCall
    /\ UNCHANGED <<instances, config, queues, store, tableName, now, tenantCache, webhookCache>>

\* The admission after getTenantCached read the table.
AdmitAfterLookup(l) ==
    /\ l.pc = "resume"
    /\ l.message \in Messages
    /\ tenantCache' = CacheAfterLookup(tenantCache, l, now)
    /\ LET a == AdmitContinue(l, LookupOutcome(l))
       IN  /\ deliveries' = [deliveries EXCEPT ![l.message] = Delivered(@, a)]
           /\ IF a.pc = "done"
              THEN calls' = Remove(calls, l) /\ returned' = a
              ELSE calls' = Replace(calls, l, a) /\ returned' = NoCall
    /\ UNCHANGED <<instances, config, queues, store, tableName, now, webhookCache>>

\* The fleet supplies the tenant's live runners.
CountSend(a) ==
    /\ a.pc = "count"
    /\ calls' = Replace(calls, a,
           [a EXCEPT !.pc = "counted",
                     !.listed = {i.InstanceId : i \in LiveRunners(a.installationId)}])
    /\ returned' = NoCall
    /\ UNCHANGED <<deliveries, instances, config, queues, store, tableName, now, tenantCache, webhookCache>>

WithinLimitInclusive(count, tenant) == count <= tenant.max_runners

\* current_live_runner_count_for_tenant < max_concurrent_runners
WithinLimit(count, tenant) == count < tenant.max_runners

\* After the count: creation is allowed within the limit; at the limit the
\* invocation ends without creating, its message acknowledged or left to
\* the queue.
AdmitAfterCount(a, acknowledged) ==
    /\ a.pc = "counted"
    /\ IF WithinLimit(Cardinality(a.listed), a.tenant)
       THEN /\ calls' = Replace(calls, a, [a EXCEPT !.pc = "create"])
            /\ returned' = NoCall
            /\ deliveries' = deliveries
       ELSE /\ calls' = Remove(calls, a)
            /\ returned' = [a EXCEPT !.pc = "done", !.outcome = "limit"]
            /\ deliveries' = [deliveries EXCEPT ![a.message].state =
                                 IF acknowledged THEN "deleted" ELSE "visible"]
    /\ UNCHANGED <<instances, config, queues, store, tableName, now, tenantCache, webhookCache>>

\* The fleet creates one runner tagged with the message's installation; the
\* invocation returns and the queue deletes the message.
CreateInstancesSend(a) ==
    /\ a.pc = "create"
    /\ instances' = instances \cup
          {[InstanceId |-> Cardinality(instances) + 1, tenant |-> a.installationId,
            state |-> "pending"]}
    /\ deliveries' = [deliveries EXCEPT ![a.message].state = "deleted",
                                        ![a.message].created = @ + 1]
    /\ calls' = Remove(calls, a)
    /\ returned' = [a EXCEPT !.pc = "done", !.outcome = "created"]
    /\ UNCHANGED <<config, queues, store, tableName, now, tenantCache, webhookCache>>

\* The queue moves a message received MaxReceiveCount times to the tier's
\* dead-letter queue instead of delivering it again.
Redrive(m) ==
    /\ deliveries[m].state = "visible"
    /\ deliveries[m].receiveCount >= MaxReceiveCount
    /\ deliveries' = [deliveries EXCEPT ![m].state = "dlq"]
    /\ returned' = NoCall
    /\ UNCHANGED <<instances, config, queues, store, tableName, now, tenantCache, webhookCache, calls>>

\* The routing messages the webhook enqueues in multi-tenant mode: with the
\* tenantId of the tenant it found active, or with the installation id alone
\* when its lookup failed and it deferred the check.
RoutingMessages ==
    UNION {{[installationId |-> id, tenantId |-> tenantId, receiveCount |-> 0,
             state |-> "visible", resolved |-> FALSE, created |-> 0] :
               tenantId \in {<<>>, NumberToString(id)}} : id \in Stored}

\* A multi-tenant deployment: the installation of the messages onboarded in
\* tier small or unknown to the table, at its limit or one runner below it,
\* and NumMessages messages on a tier queue.
InitAdmit ==
    /\ \E ids \in SUBSET Stored :
          store = [t \in ids |-> NewTenant(t, "small", 0)]
    /\ tableName = TRUE
    /\ now = 0
    /\ tenantCache = <<>>
    /\ webhookCache = <<>>
    /\ calls = EmptyBag
    /\ returned = NoCall
    /\ \E n \in {TIER_LIMITS["small"] - 1, TIER_LIMITS["small"]} :
          instances = {[InstanceId |-> i, tenant |-> 1, state |-> "running"] : i \in 1..n}
    /\ config = NoConfig
    /\ queues = NoQueues
    /\ deliveries \in [Messages -> RoutingMessages]

NextAdmit ==
    \/ \E m \in Messages : Receive(m)
    \/ \E l \in BagToSet(calls), rejects \in BOOLEAN : GetTenantSend(l, rejects)
    \/ \E l \in BagToSet(calls) : AdmitAfterLookup(l)
    \/ \E a \in BagToSet(calls) : CountSend(a)
    \/ \E a \in BagToSet(calls), acknowledged \in BOOLEAN : AdmitAfterCount(a, acknowledged)
    \/ \E a \in BagToSet(calls) : CreateInstancesSend(a)
    \/ \E m \in Messages : Redrive(m)

SpecAdmit == InitAdmit /\ [][NextAdmit]_vars

\* The deployment does not halt while a step is possible: the queue keeps
\* delivering and redriving, the table and the fleet answer, and an invocation
\* that can go on does. Every behaviour takes finitely many steps, so no
\* step needs fairness of its own.
FairAdmit == SpecAdmit /\ WF_vars(NextAdmit)

\* The admission whose creation call this step completed.
Creating(a) ==
    /\ a \in BagToSet(calls) /\ a.pc = "create"
    /\ CopiesIn(a, calls') < CopiesIn(a, calls)

C23_UnresolvedGoesToDeadLetter ==
    /\ [](\A m \in Messages :
            /\ deliveries[m].receiveCount <= 3
            /\ ~deliveries[m].resolved
                  => deliveries[m].state # "deleted" /\ deliveries[m].created = 0)
    /\ \A m \in Messages : <>(deliveries[m].resolved \/ deliveries[m].state = "dlq")

\* A message for an installation the table does not hold is in the
\* dead-letter queue after three deliveries that created nothing.
C23_Witness ==
    \E m \in Messages :
        /\ deliveries[m].state = "dlq" /\ deliveries[m].receiveCount = 3
        /\ ~deliveries[m].resolved /\ deliveries[m].created = 0
        /\ deliveries[m].installationId \notin DOMAIN store

\* C31: in multi-tenant mode every message a dispatch enqueues carries the
\* event's installation id, which is not 0; after a lookup_error it has no
\* tenantId and no tenantTier, and with a tenant found its tenantId is that
\* installation id in decimal and its tenantTier the tier of the record.
C31_MessageCarriesInstallation ==
    \A c \in Dispatches : \A i \in 1..Len(c.sent) :
        tableName =>
            /\ c.installationId # 0
            /\ c.sent[i].installationId = c.installationId
            /\ c.outcome \in {"lookup_error", "found"}
            /\ c.outcome = "lookup_error"
                  => c.sent[i].tenantId = <<>> /\ c.sent[i].tenantTier = ""
            /\ c.outcome = "found"
                  => /\ c.sent[i].tenantId = NumberToString(c.installationId)
                     /\ c.sent[i].tenantTier = c.tenant.tier

\* A job was accepted although the lookup of its tenant failed: its message
\* names the installation and no tenant.
C31_Witness ==
    /\ returned.op = "dispatch" /\ tableName
    /\ returned.ret = Response(201, "queued")
    /\ returned.outcome = "lookup_error"
    /\ returned.sent[1].installationId = returned.installationId
    /\ returned.installationId # 0
    /\ returned.sent[1].tenantId = <<>>

\* The event's repository is not on a configured, non-empty allow-list.
Disallowed(c) ==
    /\ Len(config.repositoryAllowList) > 0
    /\ \A i \in 1..Len(config.repositoryAllowList) :
          config.repositoryAllowList[i] # c.event.repository

\* C32: dispatch checks the tenant first, then the repository allow-list, then
\* the action, then the labels: a dispatch the tenant validation rejects ends
\* with that rejection whatever its repository and action are; one that
\* passes it from a repository off the allow-list ends with 403 whatever its
\* action is; only then is a job that is not queued answered 201 not queued,
\* and only a queued job has its labels matched.
C32_ChecksInOrder ==
    returned.op = "dispatch" =>
        IF MustReject(returned)
        THEN /\ returned.ret.kind = "ValidationError"
             /\ returned.ret.detail # "unauthorized repository"
        ELSE IF Disallowed(returned)
        THEN returned.ret = ValidationError(403, "unauthorized repository")
        ELSE IF returned.event.action # "queued"
        THEN returned.ret = Response(201, "not queued")
        ELSE \/ returned.ret = Response(202, "not accepted")
             \/ returned.queueIds # <<>>

\* A job that is not queued, from a repository off the allow-list and an
\* unknown tenant, was rejected as unknown tenant.
C32_Witness ==
    /\ returned.op = "dispatch" /\ tableName
    /\ returned.outcome = "not_found"
    /\ Disallowed(returned)
    /\ returned.event.action # "queued"
    /\ returned.ret = ValidationError(403, "unknown")

\* A job that is not queued from a repository off the allow-list, sent by an
\* active tenant, was rejected for its repository.
C32_WitnessRepository ==
    /\ returned.op = "dispatch" /\ tableName
    /\ returned.outcome = "found" /\ returned.tenant.status = "active"
    /\ Disallowed(returned)
    /\ returned.event.action # "queued"
    /\ returned.ret = ValidationError(403, "unauthorized repository")

\* The 'deleted' handlers under way and the one that just returned.
DeletedHandlers == {h \in Handlers : h.event.action = "deleted"}

\* C33: the 'deleted' handler updates the status, then invalidates the cache
\* entry, then lists, then terminates. A handler that has listed or is about
\* to has its update answered without error and its tenant's cache entry
\* gone, and terminates only after a listing; a handler whose update raised
\* raises, with the cache as it was and nothing listed or terminated; a
\* handler whose update found no record still invalidates and lists, and no
\* record is stored for it.
C33_DeletedStepsInOrder ==
    /\ [](\A h \in DeletedHandlers :
            /\ (h.pc \in {"describe", "described", "terminate", "terminated"}
                \/ h.ec2 # "none")
                  => /\ h.resp.kind \in {"item", "ConditionalCheckFailedException"}
                     /\ ~MapHas(tenantCache, h.installationId)
            /\ h.pc \in {"terminate", "terminated"}
                  => h.ec2 \in {"described", "terminated", "terminate_error"}
            /\ (h.pc = "done" /\ (h.resp.kind = "error" \/ ~tableName))
                  => /\ h.ret = StoreError
                     /\ h.ec2 = "none" /\ h.listed = {} /\ ~h.invalidated
            /\ (h.pc = "done" /\ h.resp.kind = "ConditionalCheckFailedException")
                  => /\ h.ret.kind = "void" /\ h.ec2 # "none"
                     /\ h.installationId \notin DOMAIN store)
    /\ [][(/\ returned'.op = "handleInstallation"
           /\ returned'.event.action = "deleted"
           /\ returned'.ret = StoreError)
          => tenantCache' = tenantCache /\ instances' = instances]_vars

\* The update of a cached tenant's status failed: the handler raised with the
\* entry still cached and the tenant's instances running.
C33_Witness ==
    /\ returned.op = "handleInstallation" /\ returned.event.action = "deleted"
    /\ returned.resp.kind = "error" /\ returned.ret = StoreError
    /\ MapHas(tenantCache, returned.installationId)
    /\ \E i \in instances : i.tenant = returned.installationId /\ i.state = "running"

\* The update found no record: the instances tagged with the installation
\* were terminated all the same and no record was stored.
C33_WitnessNotFound ==
    /\ returned.op = "handleInstallation" /\ returned.event.action = "deleted"
    /\ returned.resp.kind = "ConditionalCheckFailedException"
    /\ returned.ec2 = "terminated" /\ returned.listed # {}
    /\ returned.installationId \notin DOMAIN store

\* C34: the updated_at of a stored tenant never goes back and is never
\* earlier than its created_at, however createTenant and concurrent
\* updateTenant calls interleave.
C34_UpdatedAtMonotone ==
    /\ [](\A id \in DOMAIN store : store[id].updated_at >= store[id].created_at)
    /\ [][\A id \in DOMAIN store \cap DOMAIN store' :
             store'[id].updated_at >= store[id].updated_at]_vars

\* C35: every stored tenant has max_runners > 0, whatever createTenant and
\* updateTenant calls were made.
C35_LimitPositive ==
    \A id \in DOMAIN store : store[id].max_runners > 0

\* The PutCommand of the suspended createTenant h, made for an id that has a
\* record, reaches the table in this step and leaves h as d.
DuplicatePutLands(h, d) ==
    /\ h \in BagToSet(calls) /\ h.pc = "put"
    /\ h.installationId \in DOMAIN store
    /\ d = [h EXCEPT !.pc = "created", !.resp = d.resp]
    /\ calls' = Replace(calls, h, d)

\* createTenant, called by the 'created' handler or directly, returned after
\* its put had found a record and it had read the table for that record.
DuplicateCreateReturned ==
    /\ returned.op \in {"handleInstallation", "createTenant"}
    /\ returned.pc = "done" /\ returned.reads = 1
    /\ returned.op = "handleInstallation" => returned.event.action = "created"

\* C36 as stated: a 'created' action or createTenant call for an id that has
\* a record leaves the table as it is and returns that record, never raising.
C36_DuplicateCreateReturnsExisting ==
    /\ [](DuplicateCreateReturned
            => returned.ret = Returned(store[returned.installationId]))
    /\ [][\A h \in BagToSet(calls), d \in BagToSet(calls') :
             DuplicatePutLands(h, d) => store' = store]_vars

\* C36 amended: such a call leaves the table as it is; it returns the
\* existing record when the table answers the read that follows the failed
\* put, and raises when that read fails.
C36_DuplicateCreateKeepsRecord ==
    /\ [](DuplicateCreateReturned
            => IF returned.resp.kind = "item"
               THEN returned.ret = Returned(store[returned.installationId])
               ELSE returned.ret = StoreError)
    /\ [][\A h \in BagToSet(calls), d \in BagToSet(calls') :
             DuplicatePutLands(h, d)
             => /\ store' = store
                /\ d.resp.kind \in {"ConditionalCheckFailedException", "error"}]_vars

\* A 'created' event arrived for a tenant whose record is a tombstone: the
\* handler returned the deleted record as it was.
C36_Witness ==
    /\ DuplicateCreateReturned
    /\ returned.op = "handleInstallation"
    /\ returned.ret = Returned(store[returned.installationId])
    /\ returned.ret.tenant.status = "deleted"

\* C37: once a caller has awaited updateTenant(id, u) and then called
\* invalidateTenantCache(id), its next getTenantCached(id) does not return a
\* record from before the update: the tenant it returns has the status u
\* set, also when another getTenantCached(id) read the table before the
\* update and resumed after the invalidation.
C37_NoStaleAfterInvalidate ==
    \A l \in LookupsAfter :
        (/\ l.after.op = "invalidateTenantCache"
         /\ "status" \in DOMAIN l.updates
         /\ l.pc = "done" /\ l.ret.kind = "value")
        => l.ret.tenant.status = l.updates.status

\* A cached lookup, the registry's or the webhook's, whose GetCommand failed.
FailedRead(l) ==
    /\ l.op \in {"getTenantCached", "webhook.getTenantCached"}
    /\ l.pc = "done" /\ l.resp.kind = "error"

\* C38: a cached lookup whose store read failed leaves both caches, their
\* keys, records and expiries, as they were and serves no cached record: the
\* registry's lookup raises and the webhook's yields lookup_error, an expired
\* entry of the id notwithstanding.
C38_FailedReadKeepsCache ==
    [][FailedRead(returned')
       => /\ tenantCache' = tenantCache
          /\ webhookCache' = webhookCache
          /\ returned'.ret = IF returned'.op = "getTenantCached"
                             THEN StoreError
                             ELSE Outcome("lookup_error", NullTenant)]_vars

\* The registry's lookup raised on a failed read while the expired entry of
\* its id stayed in the cache.
C38_Witness ==
    /\ FailedRead(returned) /\ returned.op = "getTenantCached"
    /\ returned.ret = StoreError
    /\ MapHas(tenantCache, returned.installationId)
    /\ MapGet(tenantCache, returned.installationId).expiry <= now

\* The webhook's lookup yielded lookup_error on a failed read while the
\* expired entry of its id stayed in the cache.
C38_WitnessWebhook ==
    /\ FailedRead(returned) /\ returned.op = "webhook.getTenantCached"
    /\ returned.ret.kind = "lookup_error"
    /\ MapHas(webhookCache, returned.installationId)
    /\ MapGet(webhookCache, returned.installationId).expiry <= now

\* The updateTenant calls whose write is the last the record of id received:
\* suspended after their command or just returned, with the record as the
\* table answered it.
LastApplied(id) ==
    {u \in BagToSet(calls) \cup {returned} :
        /\ u.op = "updateTenant" /\ u.installationId = id
        /\ u.pc \in {"updated", "done"} /\ u.resp.kind = "item"
        /\ u.resp.item = store[id]}

\* One of the two updates names the status alone and the other the tier alone.
Disjoint(u, v) ==
    \/ DOMAIN u = {"status"} /\ DOMAIN v = {"tier"}
    \/ DOMAIN u = {"tier"} /\ DOMAIN v = {"status"}

\* The two updates taken as one.
Merged(u, v) == [f \in DOMAIN u \cup DOMAIN v |-> IF f \in DOMAIN u THEN u[f] ELSE v[f]]

\* C39: updateTenant calls that name disjoint fields do not overwrite each
\* other: when an update of the status alone and an update of the tier alone
\* are applied to a record one after the other, in either order, the record
\* has the status s of the one, the tier t of the other and max_runners
\* TIER_LIMITS[t].
C39_DisjointUpdatesCompose ==
    [][\A u \in BagToSet(calls), d \in BagToSet(calls') :
          (UpdateLands(u, d) /\ d.resp.kind = "item")
          => \A b \in LastApplied(u.installationId) :
                Disjoint(b.updates, u.updates)
                => LET new == store'[u.installationId]
                       both == Merged(b.updates, u.updates)
                   IN  /\ new.status = both.status
                       /\ new.tier = both.tier
                       /\ new.max_runners = TIER_LIMITS[both.tier]]_vars

\* The update of the tier was applied to the active record and has returned;
\* the update of the status was applied after it and kept the tier 'large'
\* and its limit.
C39_Witness ==
    /\ returned.op = "updateTenant" /\ returned.updates = [tier |-> "large"]
    /\ returned.resp.kind = "item" /\ returned.resp.item.status = "active"
    /\ \E a \in BagToSet(calls) :
          /\ a.op = "updateTenant" /\ a.pc = "updated" /\ a.resp.kind = "item"
          /\ a.installationId = returned.installationId
          /\ a.updates = [status |-> "suspended"]
          /\ a.resp.item = store[a.installationId]
          /\ store[a.installationId].tier = "large"
          /\ store[a.installationId].max_runners = TIER_LIMITS["large"]

\* The other order: the update of the status was applied first, the update of
\* the tier after it, and the record stayed suspended.
C39_WitnessTierLast ==
    \E a, b \in BagToSet(calls) :
        /\ a.op = "updateTenant" /\ a.pc = "updated" /\ a.resp.kind = "item"
        /\ b.op = "updateTenant" /\ b.pc = "updated" /\ b.resp.kind = "item"
        /\ a.installationId = b.installationId
        /\ a.updates = [status |-> "suspended"] /\ a.resp.item.tier = "small"
        /\ b.updates = [tier |-> "large"]
        /\ b.resp.item = store[b.installationId]
        /\ store[b.installationId].status = "suspended"

\* The webhook in multi-tenant mode over a table of active tenants of any
\* tier, with no repository allow-list.
InitRouting ==
    /\ \E k \in 0..NumDispatched : \E tier \in [1..k -> Tiers] :
          store = [t \in 1..k |-> NewTenant(t, tier[t], 0)]
    /\ tableName = TRUE
    /\ now = 0
    /\ tenantCache = <<>>
    /\ webhookCache = <<>>
    /\ calls = EmptyBag
    /\ returned = NoCall
    /\ instances = {}
    /\ config \in [matcherConfig : {DeployedMatcherConfig, MixedMatcherConfig},
                   repositoryAllowList : {<<>>}]
    /\ queues = NoQueues
    /\ deliveries = <<>>

SpecRouting == InitRouting /\ [][NextWebhook]_vars

\* The tier the configuration as configured gives a job of these labels: an
\* exactMatch tier that can run it when there is one, the earliest such tier
\* in the configured order; none when no tier can run it.
Selected(labels) ==
    LET exact == {j \in CanRun(labels) : Configured[j].matcherConfig.exactMatch}
        pool == IF exact # {} THEN exact ELSE CanRun(labels)
    IN  IF pool = {} THEN <<>>
        ELSE <<Configured[CHOOSE j \in pool : \A k \in pool : j <= k].id>>

\* The dispatches of queued jobs that have had their labels matched.
Routed ==
    {c \in Dispatches :
        /\ c.event.action = "queued"
        /\ c.pc \in {"enqueue", "enqueued", "done"}
        /\ c.ret.kind # "ValidationError"}

\* C40: the tier queue dispatch chooses for a queued job is a function of the
\* job's labels and the matcher configuration alone: it is the same whichever
\* tenant, of whichever tier, sent the event, two dispatches of the same
\* labels choose the same queue, and the message goes to that queue with the
\* tier of the tenant's record as tenantTier.
C40_RoutingIgnoresTenant ==
    /\ \A c \in Routed :
          /\ c.queueIds = Selected(c.event.labels)
          /\ \A i \in 1..Len(c.sent) :
                /\ c.sent[i].queueId = c.queueIds[1]
                /\ c.outcome = "found" => c.sent[i].tenantTier = c.tenant.tier
    /\ \A c, d \in Routed :
          c.event.labels = d.event.labels => c.queueIds = d.queueIds

\* A tenant whose record has tier 'small' asked for the labels of the tier
\* 'large': its job went to the queue of 'large' with tenantTier 'small'.
C40_Witness ==
    /\ returned \in Routed /\ returned.ret = Response(201, "queued")
    /\ returned.outcome = "found" /\ returned.tenant.tier = "small"
    /\ returned.tenant.status = "active"
    /\ returned.sent = <<ActionRequestMessage(returned, "large", returned.tenant)>>
    /\ returned.sent[1].tenantTier = "small"
    /\ queues["large"] = 1

\* The same labels from a tenant whose record has tier 'large' went to the
\* same queue.
C40_WitnessLarge ==
    /\ returned \in Routed /\ returned.ret = Response(201, "queued")
    /\ returned.outcome = "found" /\ returned.tenant.tier = "large"
    /\ returned.event.labels = <<<<"L", "I", "N", "U", "X">>, TierLabel["large"]>>
    /\ returned.sent[1].queueId = "large"
    /\ returned.sent[1].tenantTier = "large"
====
